---- MODULE Spec2Model ----
(***************************************************************************)
(* Model of the MicroSlate BLE keyboard subsystem (src/src/ble_keyboard.cpp,*)
(* the key-event queue of src/src/input_handler.cpp and the part of        *)
(* src/src/main.cpp's loop() that drives them).                            *)
(*                                                                         *)
(* Execution contexts:                                                     *)
(*   - the main loop task: Loop (main.cpp loop() head + bleLoop()), the    *)
(*     key handlers of dispatchEvent (Ui...), bleSetup;                    *)
(*   - the connect worker bleConnectTask, one action per blocking call or  *)
(*     group of shared writes (Worker...);                                 *)
(*   - the radio stack's callbacks (On...), each atomic.                   *)
(*                                                                         *)
(* Reports are 8-byte sequences; TLA+ sequences start at 1, so byte i of   *)
(* the source is At(r, i) == r[i + 1].                                     *)
(***************************************************************************)
EXTENDS Integers, Sequences, FiniteSets, TLC

VARIABLES
  \* ---- ble_keyboard.cpp module state
  bleState,             \* BLEState
  connectToKeyboard,    \* pending connect request flag
  keyboardAddress,      \* target address ("" = none)
  keyboardAddressType,
  lastReport,           \* retained 8-byte report
  prefs,                \* NVS namespace "ble_kb": [addr, name, addrType]
  autoReconnectEnabled,
  reconnectDelay,
  lastReconnectAttempt,
  lastBleKeystrokeMs,
  bleConnIdleMode,
  discoveredDevices,    \* sequence of BleDeviceInfo
  isScanning,
  connectTaskHandle,    \* "null" or "task"
  authSuccess,
  currentPasskey,
  pClient,              \* TRUE once the client object exists
  pRemoteService,       \* TRUE when the HID service handle is set
  pInputReportChar,     \* 0 = nullptr, else index of the characteristic
  \* ---- connect worker (bleConnectTask)
  wpc,                  \* position of the worker
  secStart,             \* local secStart of the worker
  \* ---- radio stack / peripheral
  linkUp,               \* pClient->isConnected()
  termPending,          \* a local disconnect() has been requested
  linkPeer,             \* address the link was established to
  peer,                 \* GATT profile of the connected peripheral
  secPending,           \* a security procedure is in progress
  subscribed,           \* characteristics with onKeyboardNotify subscribed
  protoWritten,         \* Protocol Mode written on this link
  scanActive,           \* NimBLEScan::isScanning()
  bonds,                \* the stack holds bonding material
  connParams,           \* last parameters requested with updateConnParams
  \* ---- main.cpp loop() / UI
  mainPc,               \* "setup" until bleSetup has run, then "loop"
  currentState,
  lastState,
  \* ---- input_handler.cpp key-event queue
  inputQueue,
  queueHead,
  queueTail,
  queueFull,
  \* ---- time
  now,                  \* millis()
  \* ---- history (not program state)
  lastOp,               \* name of the last operation that ran
  prevReport,           \* lastReport before the last notification
  lastPayload,          \* payload of the last notification
  emitted,              \* enqueueKeyEvent calls of the last notification
  notifyCount,          \* notifications delivered
  uiCount,              \* key events the user has sent to the settings screens
  sighted,              \* per address, the last sighting since the list was cleared
  attempt               \* facts about the current / last connect attempt

bleVars == <<bleState, connectToKeyboard, keyboardAddress, keyboardAddressType,
             prefs, autoReconnectEnabled, reconnectDelay, lastReconnectAttempt,
             bleConnIdleMode, discoveredDevices, isScanning, connectTaskHandle,
             authSuccess, currentPasskey, pClient, pRemoteService,
             pInputReportChar>>
workerVars == <<wpc, secStart>>
radioVars == <<linkUp, termPending, linkPeer, peer, secPending, subscribed,
               protoWritten, scanActive, bonds, connParams>>
uiVars == <<mainPc, currentState, lastState>>
queueVars == <<inputQueue, queueHead, queueTail, queueFull>>
decoderVars == <<lastReport, lastBleKeystrokeMs>>
historyVars == <<prevReport, lastPayload, emitted, notifyCount>>
budgetVars == <<uiCount, sighted>>

vars == <<bleVars, workerVars, radioVars, uiVars, queueVars, decoderVars,
          historyVars, budgetVars, now, lastOp, attempt>>

-----------------------------------------------------------------------------
(* Program constants *)

INPUT_QUEUE_SIZE == 50
RECONNECT_DELAY_FLOOR == 10000
MAX_RECONNECT_DELAY == 120000
BLE_IDLE_SWITCH_MS == 3000
SECURITY_WAIT_MS == 5000
CONN_INTERVAL_ACTIVE_MIN == 12
CONN_INTERVAL_ACTIVE_MAX == 16
CONN_INTERVAL_IDLE_MIN == 80
CONN_INTERVAL_IDLE_MAX == 160
CONN_SLAVE_LATENCY_ACTIVE == 0
CONN_SLAVE_LATENCY_IDLE == 4
CONN_SUPERVISION_TIMEOUT == 400

(* Bounds of the model *)

\* keycodes of the reports fed to the decoder are 0..MaxKey
MaxKey == 3
\* the clock of the decoder specification runs to DecTicks steps
DecTicks == 1
\* the clock of the connection specification runs to MaxTicks steps
MaxTicks == 2
\* notifications delivered in one behaviour of the connection specification
MaxNotify == 1
\* key events the user sends to the settings screens in one behaviour
MaxUiOps == 2

\* amounts by which the clock advances in one step
TickSteps == {5000}
TickUnit == CHOOSE d \in TickSteps : \A e \in TickSteps : d <= e

\* the key slots (source indices) a generated payload may fill: the first
\* and the last one
ProbeSlots == {2, 7}
Modifiers == {0, 2}
\* a delivery establishes the retained report, the next one is diffed
\* against it
DecoderRounds == {1, 2}

-----------------------------------------------------------------------------
(* Report decoder: onKeyboardNotify *)

At(r, i) == r[i + 1]

ZeroReport == [i \in 1..8 |-> 0]

\* line 100: only 7- and 8-byte payloads are decoded
LengthAcceptedAny(length) == length >= 7
LengthAccepted(length) == length = 7 \/ length = 8

\* lines 105-117: the 8-byte layout [mod, reserved, k1..k6]
NormalizeNoShift(pData) ==
  IF Len(pData) = 8
    THEN [i \in 1..8 |-> pData[i]]
    ELSE [i \in 1..8 |-> IF i <= Len(pData) THEN pData[i] ELSE 0]
Normalize(pData) ==
  IF Len(pData) = 8
    THEN [i \in 1..8 |-> pData[i]]                     \* memcpy(newReport, pData, 8)
    ELSE [i \in 1..8 |->
            IF i = 1 THEN pData[1]                     \* newReport[0] = pData[0]
            ELSE IF i = 2 THEN 0                       \* newReport[1] = 0
            ELSE IF i - 1 <= Len(pData) THEN pData[i - 1]  \* memcpy(&newReport[2], &pData[1], 6)
            ELSE 0]

\* the inner loops (lines 129-131, 142-144): is key in slots j..7 of rep
RECURSIVE InReportShort(_, _, _)
InReportShort(rep, key, j) ==
  IF j >= 7 THEN FALSE
  ELSE IF At(rep, j) = key THEN TRUE
  ELSE InReportShort(rep, key, j + 1)
RECURSIVE InReport(_, _, _)
InReport(rep, key, j) ==
  IF j >= 8 THEN FALSE
  ELSE IF At(rep, j) = key THEN TRUE
  ELSE InReport(rep, key, j + 1)

KeyEvent(k, m, p) == [keyCode |-> k, modifiers |-> m, pressed |-> p]

\* lines 126-136: presses, slots i..7 of the new report in ascending order
RECURSIVE PressScanAll(_, _, _, _)
PressScanAll(newReport, last, modifiers, i) ==
  IF i >= 8 THEN <<>>
  ELSE (IF At(newReport, i) = 0 THEN <<>>
        ELSE <<KeyEvent(At(newReport, i), modifiers, TRUE)>>)
       \o PressScanAll(newReport, last, modifiers, i + 1)
RECURSIVE PressScan(_, _, _, _)
PressScan(newReport, last, modifiers, i) ==
  IF i >= 8 THEN <<>>
  ELSE (IF At(newReport, i) = 0 THEN <<>>
        ELSE IF InReport(last, At(newReport, i), 2) THEN <<>>
        ELSE <<KeyEvent(At(newReport, i), modifiers, TRUE)>>)
       \o PressScan(newReport, last, modifiers, i + 1)

\* lines 139-149: releases, slots i..7 of the previous report in ascending order
RECURSIVE ReleaseScan(_, _, _, _)
ReleaseScan(newReport, last, modifiers, i) ==
  IF i >= 8 THEN <<>>
  ELSE (IF At(last, i) = 0 THEN <<>>
        ELSE IF InReport(newReport, At(last, i), 2) THEN <<>>
        ELSE <<KeyEvent(At(last, i), modifiers, FALSE)>>)
       \o ReleaseScan(newReport, last, modifiers, i + 1)

\* lines 125-149: the enqueueKeyEvent calls of one accepted report, in order
ReleasesFirst(newReport, last, modifiers) ==
  ReleaseScan(newReport, last, modifiers, 2) \o PressScan(newReport, last, modifiers, 2)
DiffEvents(newReport, last, modifiers) ==
  PressScan(newReport, last, modifiers, 2) \o ReleaseScan(newReport, last, modifiers, 2)

-----------------------------------------------------------------------------
(* Key-event queue: input_handler.cpp *)

NoEvent == KeyEvent(0, 0, FALSE)

QueueState == [buf |-> inputQueue, head |-> queueHead, tail |-> queueTail,
               full |-> queueFull]

\* an enqueue that writes whether or not the queue is full
EnqueueOverwrite(q, ev) ==
  LET h == (q.head + 1) % INPUT_QUEUE_SIZE
  IN  [buf  |-> [q.buf EXCEPT ![q.head] = ev],
       head |-> h,
       tail |-> IF q.full THEN h ELSE q.tail,
       full |-> (q.full \/ h = q.tail)]
\* an enqueue that never sets queueFull
EnqueueNoFull(q, ev) ==
  IF ~q.full
    THEN [buf  |-> [q.buf EXCEPT ![q.head] = ev],
          head |-> (q.head + 1) % INPUT_QUEUE_SIZE,
          tail |-> q.tail,
          full |-> FALSE]
    ELSE q
\* enqueueKeyEvent, on a queue value q
Enqueue(q, ev) ==
  IF ~q.full
    THEN LET h == (q.head + 1) % INPUT_QUEUE_SIZE
         IN  [buf  |-> [q.buf EXCEPT ![q.head] = ev],
              head |-> h,
              tail |-> q.tail,
              full |-> (h = q.tail)]
    ELSE q

RECURSIVE EnqueueAll(_, _)
EnqueueAll(q, evs) ==
  IF evs = <<>> THEN q ELSE EnqueueAll(Enqueue(q, Head(evs)), Tail(evs))

isQueueEmpty(q) == (q.head = q.tail) /\ ~q.full

\* a dequeue that leaves queueFull as it is
DequeueKeepsFull(q) ==
  IF ~isQueueEmpty(q)
    THEN [buf |-> q.buf, head |-> q.head,
          tail |-> (q.tail + 1) % INPUT_QUEUE_SIZE, full |-> q.full]
    ELSE q
\* dequeueKeyEvent, on a queue value q
Dequeue(q) ==
  IF ~isQueueEmpty(q)
    THEN [buf |-> q.buf, head |-> q.head,
          tail |-> (q.tail + 1) % INPUT_QUEUE_SIZE, full |-> FALSE]
    ELSE q

\* the loop of processAllInput: dequeue until the queue is empty
RECURSIVE DrainQueue(_)
DrainQueue(q) == IF isQueueEmpty(q) THEN q ELSE DrainQueue(Dequeue(q))

SetQueue(q) ==
  /\ inputQueue' = q.buf
  /\ queueHead' = q.head
  /\ queueTail' = q.tail
  /\ queueFull' = q.full

-----------------------------------------------------------------------------
(* Environment: the peripherals in range and what they expose *)

\* advertising peripherals: A advertises a name, B does not
Peripherals ==
  { [address |-> "A", addressType |-> 0, haveName |-> TRUE,  name |-> "Keys", rssi |-> 0 - 60],
    [address |-> "B", addressType |-> 1, haveName |-> FALSE, name |-> "",     rssi |-> 0 - 80] }

\* the peripherals that advertise during a scan of the connection
\* specification: a keyboard other than the stored one
Advertisers == { p \in Peripherals : p.address = "B" }

\* a GATT characteristic of the HID service: its UUID class, whether it can
\* notify, byte 1 of its Report Reference descriptor (0: no usable
\* descriptor, 1: Input, 2: Output) and whether subscribe() succeeds on it
Chr(u, n, r, s) == [uuid |-> u, canNotify |-> n, refType |-> r, subOk |-> s]

Profile(sv, h, pm, cs) == [services |-> sv, hid |-> h, proto |-> pm, chars |-> cs]

NoProfile == Profile(FALSE, FALSE, FALSE, <<>>)

\* what a connected peripheral may expose
Profiles ==
  { \* conformant keyboard: Report Reference type Input on a notifying report
    Profile(TRUE, TRUE, TRUE, <<Chr("report", TRUE, 1, TRUE)>>),
    \* no Report Reference descriptor: tier 2
    Profile(TRUE, TRUE, FALSE, <<Chr("report", TRUE, 0, TRUE)>>),
    \* boot keyboard input only, and the subscription is refused
    Profile(TRUE, TRUE, TRUE, <<Chr("boot", TRUE, 0, FALSE)>>),
    \* no HID service
    Profile(TRUE, FALSE, FALSE, <<>>) }

\* reports a connected keyboard sends in the connection specification
LinkPayloads == { <<0, 0, 4, 0, 0, 0, 0, 0>>, <<0, 0, 0, 0, 0, 0, 0>> }

\* peripheral-initiated parameter-update requests: [itvl_min, itvl_max]
ParamRequests == { <<6, 6>>, <<100, 90>> }

Passkeys == {123456}

ConnParams(mn, mx, lat, to) == [itvlMin |-> mn, itvlMax |-> mx, latency |-> lat, timeout |-> to]
ActiveParams == ConnParams(CONN_INTERVAL_ACTIVE_MIN, CONN_INTERVAL_ACTIVE_MAX,
                           CONN_SLAVE_LATENCY_ACTIVE, CONN_SUPERVISION_TIMEOUT)
IdleParams == ConnParams(CONN_INTERVAL_IDLE_MIN, CONN_INTERVAL_IDLE_MAX,
                         CONN_SLAVE_LATENCY_IDLE, CONN_SUPERVISION_TIMEOUT)
NoParams == ConnParams(0, 0, 0, 0)

-----------------------------------------------------------------------------
(* Persistence: the NVS namespace "ble_kb" *)

NoRecord == [addr |-> "", name |-> "", addrType |-> 0]

\* getStoredDevice: [found, address, name]
getStoredDevice(p) ==
  IF p.addr # ""
    THEN [found |-> TRUE, address |-> p.addr,
          name |-> IF p.name # "" THEN p.name ELSE p.addr]
    ELSE [found |-> FALSE, address |-> "", name |-> ""]

\* storePairedDevice(address, name); addrType is the global keyboardAddressType
storePairedDevice(address, name, addrType) ==
  [addr |-> address, name |-> name, addrType |-> addrType]

-----------------------------------------------------------------------------
(* Discovery list *)

\* upsertDevice on a list value
RECURSIVE upsertFrom(_, _, _)
upsertFrom(devs, info, i) ==
  IF i > Len(devs) THEN Append(devs, info)
  ELSE IF devs[i].address = info.address THEN [devs EXCEPT ![i] = info]
  ELSE upsertFrom(devs, info, i + 1)

\* ScanCallbacks::onResult builds the entry of a sighting
SightingInfo(dev, t) ==
  [address |-> dev.address,
   name |-> IF dev.haveName THEN dev.name ELSE dev.address,
   rssi |-> dev.rssi,
   addressType |-> dev.addressType,
   lastSeenMs |-> t]

\* upsertDevice without the search for the address
upsertAppend(devs, info) == Append(devs, info)

upsertDevice(devs, info) == upsertFrom(devs, info, 1)

Addresses == { p.address : p \in Peripherals }

NoInfo == [address |-> "", name |-> "", rssi |-> 0, addressType |-> 0, lastSeenMs |-> 0]

NoSightings == [a \in Addresses |-> NoInfo]

\* the name lookup of bleConnectTask lines 410-416
RECURSIVE devNameFrom(_, _, _)
devNameFrom(devs, address, i) ==
  IF i > Len(devs) THEN address
  ELSE IF devs[i].address = address THEN devs[i].name
  ELSE devNameFrom(devs, address, i + 1)

-----------------------------------------------------------------------------
(* Service / characteristic resolution: setupHidConnection *)

\* a resolution without the Report Reference tier
FindInputRefNone(chars, i) == 0
\* lines 266-288: the first report characteristic whose Report Reference
\* descriptor has type Input; 0 when there is none
RECURSIVE FindInputRef(_, _)
FindInputRef(chars, i) ==
  IF i > Len(chars) THEN 0
  ELSE IF chars[i].uuid = "report" /\ chars[i].refType = 1 THEN i
  ELSE FindInputRef(chars, i + 1)

\* tier 2 subscribing to nothing
SubscribeNothing(chars, i, acc) == acc
\* lines 293-308: subscribe to every notifying report characteristic from
\* index i on; acc = [input, subs, count]
RECURSIVE SubscribeReports(_, _, _)
SubscribeReports(chars, i, acc) ==
  IF i > Len(chars) THEN acc
  ELSE IF chars[i].uuid = "report" /\ chars[i].canNotify /\ chars[i].subOk
    THEN SubscribeReports(chars, i + 1,
           [input |-> IF acc.count = 0 THEN i ELSE acc.input,
            subs  |-> acc.subs \cup {i},
            count |-> acc.count + 1])
  ELSE SubscribeReports(chars, i + 1, acc)

\* line 319: getCharacteristic(bootKeyboardInUUID); 0 when absent
RECURSIVE FindBoot(_, _)
FindBoot(chars, i) ==
  IF i > Len(chars) THEN 0
  ELSE IF chars[i].uuid = "boot" THEN i
  ELSE FindBoot(chars, i + 1)

\* setupHidConnection on the handles h = [service, input, subs, proto];
\* connected is pClient && pClient->isConnected(), prof the peripheral
setupHidConnection(connected, prof, h) ==
  IF ~connected THEN [h EXCEPT !.ok = FALSE]                         \* line 236
  ELSE IF ~prof.services THEN [h EXCEPT !.ok = FALSE]                \* 239-242
  ELSE IF ~prof.hid THEN [h EXCEPT !.ok = FALSE, !.service = FALSE]  \* 244-248
  ELSE
    LET proto == h.proto \/ prof.proto                               \* 250-259
        t1 == FindInputRef(prof.chars, 1)                            \* 262-288
        t2 == IF t1 = 0                                              \* 291-314
                THEN SubscribeReports(prof.chars, 1,
                       [input |-> 0, subs |-> h.subs, count |-> 0])
                ELSE [input |-> t1, subs |-> h.subs, count |-> 0]
        t3 == IF t2.input = 0 THEN FindBoot(prof.chars, 1) ELSE t2.input  \* 317-323
        base == [ok |-> FALSE, service |-> TRUE, input |-> t3,
                 subs |-> t2.subs, proto |-> proto]
    IN  IF t3 = 0 THEN base                                          \* 325-328
        ELSE IF prof.chars[t3].uuid # "report" \/ ~prof.chars[t3].canNotify  \* 332
          THEN IF ~prof.chars[t3].subOk
                 THEN base                                           \* 334-337
                 ELSE [base EXCEPT !.ok = TRUE, !.subs = t2.subs \cup {t3}]
          ELSE [base EXCEPT !.ok = TRUE]                             \* 339-344

-----------------------------------------------------------------------------
(* History of connect requests and attempts (not program state) *)

NoAttempt ==
  [reqKind |-> "none",                     \* who made the pending request
   kind |-> "none",                        \* who made the request the worker serves
   stored |-> FALSE,                       \* the attempt wrote the PairingRecord
   reset |-> FALSE,                        \* the attempt reset reconnectDelay
   sawConnected |-> FALSE,                 \* bleState was CONNECTED during it
   streak |-> 0,                           \* automatic requests since boot or the last CONNECTED
   links |-> 0,                            \* links established since boot
   lastAuto |-> -1,                        \* time of the policy's last request
   outcome |-> "none"]

Requested(a, kind) == [a EXCEPT !.reqKind = kind]

-----------------------------------------------------------------------------
(* Main-loop operations, as functions on the state they read and write *)

MainState ==
  [bleState |-> bleState, connectToKeyboard |-> connectToKeyboard,
   keyboardAddress |-> keyboardAddress, keyboardAddressType |-> keyboardAddressType,
   autoReconnectEnabled |-> autoReconnectEnabled, reconnectDelay |-> reconnectDelay,
   lastReconnectAttempt |-> lastReconnectAttempt, bleConnIdleMode |-> bleConnIdleMode,
   discoveredDevices |-> discoveredDevices, isScanning |-> isScanning,
   connectTaskHandle |-> connectTaskHandle, pInputReportChar |-> pInputReportChar,
   pRemoteService |-> pRemoteService, lastReport |-> lastReport, prefs |-> prefs,
   wpc |-> wpc, termPending |-> termPending, scanActive |-> scanActive,
   bonds |-> bonds, connParams |-> connParams, lastState |-> lastState,
   attempt |-> attempt, sighted |-> sighted]

ApplyFields(s) ==
  /\ bleState' = s.bleState
  /\ connectToKeyboard' = s.connectToKeyboard
  /\ keyboardAddress' = s.keyboardAddress
  /\ keyboardAddressType' = s.keyboardAddressType
  /\ autoReconnectEnabled' = s.autoReconnectEnabled
  /\ reconnectDelay' = s.reconnectDelay
  /\ lastReconnectAttempt' = s.lastReconnectAttempt
  /\ bleConnIdleMode' = s.bleConnIdleMode
  /\ discoveredDevices' = s.discoveredDevices
  /\ isScanning' = s.isScanning
  /\ connectTaskHandle' = s.connectTaskHandle
  /\ pInputReportChar' = s.pInputReportChar
  /\ pRemoteService' = s.pRemoteService
  /\ lastReport' = s.lastReport
  /\ prefs' = s.prefs
  /\ wpc' = s.wpc
  /\ termPending' = s.termPending
  /\ scanActive' = s.scanActive
  /\ bonds' = s.bonds
  /\ connParams' = s.connParams
  /\ lastState' = s.lastState
  /\ attempt' = s.attempt
  /\ sighted' = s.sighted
  /\ UNCHANGED <<authSuccess, currentPasskey, pClient, secStart, linkUp, linkPeer,
                 peer, secPending, subscribed, protoWritten, queueVars,
                 lastBleKeystrokeMs, historyVars, now>>

ApplyMain(s) == ApplyFields(s) /\ mainPc' = mainPc

ApplyMainBoot(s) == ApplyFields(s) /\ mainPc' = "loop"

\* pClient->disconnect(): asks the stack to terminate the link; the link is
\* down, and onDisconnect runs, when the stack's disconnect event arrives
RequestDisconnect(s) ==
  IF pClient /\ linkUp THEN [s EXCEPT !.termPending = TRUE] ELSE s

\* lines 435-441
startConnectTask(s) ==
  IF s.connectTaskHandle # "null" THEN s
  ELSE [s EXCEPT !.connectTaskHandle = "task",
                 !.wpc = "start",
                 !.attempt = [NoAttempt EXCEPT !.kind = s.attempt.reqKind,
                                               !.streak = s.attempt.streak,
                                               !.lastAuto = s.attempt.lastAuto,
                                               !.links = s.attempt.links,
                                               !.outcome = "running"]]

\* a cancel that resets CONNECTING although a worker is running
cancelResetsState(s) ==
  LET s1 == [s EXCEPT !.connectToKeyboard = FALSE, !.attempt.reqKind = "none"]
  IN  IF s1.bleState = "CONNECTING"
        THEN [s1 EXCEPT !.bleState = "DISCONNECTED"]
        ELSE s1
\* lines 542-551
cancelPendingConnection(s) ==
  LET s1 == [s EXCEPT !.connectToKeyboard = FALSE, !.attempt.reqKind = "none"]
  IN  IF s1.bleState = "CONNECTING" /\ s1.connectTaskHandle = "null"
        THEN [s1 EXCEPT !.bleState = "DISCONNECTED"]
        ELSE s1

\* lines 572-576
stopDeviceScan(s) == [s EXCEPT !.scanActive = FALSE, !.isScanning = FALSE]

\* startDeviceScan without the clear() of line 557
startDeviceScanNoClear(s) ==
  LET s1 == cancelPendingConnection(s)
  IN  [s1 EXCEPT !.scanActive = TRUE, !.isScanning = TRUE]
\* lines 553-570
startDeviceScan(s) ==
  LET s1 == cancelPendingConnection(s)
  IN  [s1 EXCEPT !.discoveredDevices = <<>>, !.scanActive = TRUE, !.isScanning = TRUE,
                 !.sighted = NoSightings]

\* lines 586-605; deviceIndex counts from 0
connectToDevice(s, deviceIndex) ==
  IF deviceIndex < 0 \/ deviceIndex >= Len(s.discoveredDevices) THEN s
  ELSE LET s1 == RequestDisconnect(stopDeviceScan(s))
           d == s.discoveredDevices[deviceIndex + 1]
       IN  [s1 EXCEPT !.keyboardAddress = d.address,
                      !.keyboardAddressType = d.addressType,
                      !.connectToKeyboard = TRUE,
                      !.attempt = Requested(s1.attempt, "user")]

\* lines 607-617
disconnectCurrentDevice(s) ==
  LET s1 == RequestDisconnect(s)
  IN  [s1 EXCEPT !.bleState = "DISCONNECTED",
                 !.pInputReportChar = 0,
                 !.pRemoteService = FALSE,
                 !.lastReport = ZeroReport,
                 !.lastReconnectAttempt = now,
                 !.keyboardAddress = ""]

\* lines 663-670
clearStoredDevice(s) == [s EXCEPT !.prefs = NoRecord, !.bonds = FALSE]

\* lines 657-661
clearAllBluetoothBonds(s) == clearStoredDevice([s EXCEPT !.bonds = FALSE])

-----------------------------------------------------------------------------
(* bleLoop and the head of main.cpp's loop() *)

\* bleLoop lines 481-489: a one-shot scan has finished
ScanFinished(s) ==
  IF s.isScanning /\ ~s.scanActive THEN [s EXCEPT !.isScanning = FALSE] ELSE s

\* the adaptive block with the threshold itself counted as idle
AdaptParamsAtThreshold(s) ==
  IF s.bleState = "CONNECTED" /\ pClient /\ linkUp
    THEN IF ~s.bleConnIdleMode /\ now - lastBleKeystrokeMs >= BLE_IDLE_SWITCH_MS
           THEN [s EXCEPT !.connParams = IdleParams, !.bleConnIdleMode = TRUE]
         ELSE IF s.bleConnIdleMode /\ now - lastBleKeystrokeMs < BLE_IDLE_SWITCH_MS
           THEN [s EXCEPT !.connParams = ActiveParams, !.bleConnIdleMode = FALSE]
         ELSE s
    ELSE s
\* bleLoop lines 498-513: adaptive connection parameters
AdaptParams(s) ==
  IF s.bleState = "CONNECTED" /\ pClient /\ linkUp
    THEN IF ~s.bleConnIdleMode /\ now - lastBleKeystrokeMs > BLE_IDLE_SWITCH_MS
           THEN [s EXCEPT !.connParams = IdleParams, !.bleConnIdleMode = TRUE]
         ELSE IF s.bleConnIdleMode /\ now - lastBleKeystrokeMs <= BLE_IDLE_SWITCH_MS
           THEN [s EXCEPT !.connParams = ActiveParams, !.bleConnIdleMode = FALSE]
         ELSE s
    ELSE s

\* line 527: the next backoff delay
NextDelayNoCap(d) == d * 2
NextDelay(d) == IF d * 2 > MAX_RECONNECT_DELAY THEN MAX_RECONNECT_DELAY ELSE d * 2

\* the auto-reconnect block without the timer
AutoReconnectNoTimer(s) ==
  LET stored == getStoredDevice(s.prefs)
  IN  IF /\ s.bleState = "DISCONNECTED" /\ s.autoReconnectEnabled
         /\ s.connectTaskHandle = "null"
         /\ stored.found /\ stored.address # ""
        THEN [s EXCEPT !.lastReconnectAttempt = now,
                       !.keyboardAddress = stored.address,
                       !.keyboardAddressType = s.prefs.addrType,
                       !.connectToKeyboard = TRUE,
                       !.reconnectDelay = NextDelay(s.reconnectDelay),
                       !.attempt = [Requested(s.attempt, "auto") EXCEPT
                                      !.streak = s.attempt.streak + 1,
                                      !.lastAuto = now]]
        ELSE s
\* the auto-reconnect block without the test of bleState
AutoReconnectAnyState(s) ==
  LET stored == getStoredDevice(s.prefs)
  IN  IF /\ s.autoReconnectEnabled
         /\ s.connectTaskHandle = "null"
         /\ stored.found /\ stored.address # ""
         /\ now - s.lastReconnectAttempt >= s.reconnectDelay
        THEN [s EXCEPT !.lastReconnectAttempt = now,
                       !.keyboardAddress = stored.address,
                       !.keyboardAddressType = s.prefs.addrType,
                       !.connectToKeyboard = TRUE,
                       !.reconnectDelay = NextDelay(s.reconnectDelay),
                       !.attempt = [Requested(s.attempt, "auto") EXCEPT
                                      !.streak = s.attempt.streak + 1,
                                      !.lastAuto = now]]
        ELSE s
\* bleLoop lines 515-531: auto-reconnect to the stored device
AutoReconnect(s) ==
  LET stored == getStoredDevice(s.prefs)
  IN  IF /\ s.bleState = "DISCONNECTED" /\ s.autoReconnectEnabled
         /\ s.connectTaskHandle = "null"
         /\ stored.found /\ stored.address # ""
         /\ now - s.lastReconnectAttempt >= s.reconnectDelay
        THEN [s EXCEPT !.lastReconnectAttempt = now,
                       !.keyboardAddress = stored.address,
                       !.keyboardAddressType = s.prefs.addrType,
                       !.connectToKeyboard = TRUE,
                       !.reconnectDelay = NextDelay(s.reconnectDelay),
                       !.attempt = [Requested(s.attempt, "auto") EXCEPT
                                      !.streak = s.attempt.streak + 1,
                                      !.lastAuto = now]]
        ELSE s

\* bleLoop with a launch that looks at no worker handle
bleLoopLaunchAlways(s) ==
  LET s1 == ScanFinished(s)
  IN  IF s1.connectToKeyboard /\ s1.bleState # "CONNECTED"
        THEN [s1 EXCEPT !.connectToKeyboard = FALSE,
                        !.connectTaskHandle = "task",
                        !.wpc = "start",
                        !.attempt = [NoAttempt EXCEPT !.kind = s1.attempt.reqKind,
                                                      !.streak = s1.attempt.streak,
                                                      !.lastAuto = s1.attempt.lastAuto,
                                                      !.links = s1.attempt.links,
                                                      !.outcome = "running"]]
        ELSE AutoReconnect(AdaptParams(s1))
\* bleLoop, lines 480-532
bleLoop(s) ==
  LET s1 == ScanFinished(s)
  IN  IF s1.connectToKeyboard /\ s1.bleState # "CONNECTED" /\ s1.connectTaskHandle = "null"
        THEN startConnectTask([s1 EXCEPT !.connectToKeyboard = FALSE])   \* 492-496, return
        ELSE AutoReconnect(AdaptParams(s1))

\* the head of loop() with no cancel and no scan on entry to the screen
LoopHeadNoCancel(s) ==
  [s EXCEPT !.autoReconnectEnabled = (currentState # "BLUETOOTH_SETTINGS"),
            !.lastState = currentState]
\* main.cpp loop() lines 495-510
LoopHead(s) ==
  LET s1 == IF currentState = "BLUETOOTH_SETTINGS"
              THEN LET a == [s EXCEPT !.autoReconnectEnabled = FALSE]
                   IN  IF s.lastState # "BLUETOOTH_SETTINGS"
                         THEN startDeviceScan(cancelPendingConnection(a))
                         ELSE a
              ELSE LET a == [s EXCEPT !.autoReconnectEnabled = TRUE]
                   IN  IF s.lastState = "BLUETOOTH_SETTINGS" /\ a.isScanning
                         THEN stopDeviceScan(a)
                         ELSE a
  IN  [s1 EXCEPT !.lastState = currentState]

-----------------------------------------------------------------------------
(* Actions of the main loop task *)

\* a key event of the user reaches a handler of the settings screens;
\* processAllInput runs after bleLoop in every iteration of loop(), so the
\* first event comes after the first iteration, which launches the worker
\* for the request of bleSetup
UserKey ==
  /\ ~(connectToKeyboard /\ attempt.reqKind = "startup")
  /\ uiCount < MaxUiOps
  /\ uiCount' = uiCount + 1

\* bleSetup lines 467-477 (the rest of bleSetup configures the stack)
BleSetup ==
  /\ mainPc = "setup"
  /\ LET stored == getStoredDevice(prefs)
         s == MainState
     IN  ApplyMainBoot(
           IF stored.found /\ stored.address # ""
             THEN [s EXCEPT !.keyboardAddress = stored.address,
                            !.keyboardAddressType = prefs.addrType,
                            !.connectToKeyboard = TRUE,
                            !.attempt = Requested(s.attempt, "startup")]
             ELSE [s EXCEPT !.bleState = "DISCONNECTED"])
  /\ currentState' = currentState
  /\ lastOp' = "bleSetup"
  /\ UNCHANGED uiCount

\* one iteration of loop(): lines 495-510, then bleLoop()
Loop ==
  /\ mainPc = "loop"
  /\ bleLoop(LoopHead(MainState)) # MainState   \* an idle iteration changes nothing
  /\ ApplyMain(bleLoop(LoopHead(MainState)))
  /\ currentState' = currentState
  /\ lastOp' = "Loop"
  /\ UNCHANGED uiCount

\* processAllInput: the queue is drained (the handlers the events reach are
\* the Ui actions below)
ProcessAllInput ==
  /\ mainPc = "loop"
  /\ ~isQueueEmpty(QueueState)
  /\ SetQueue(DrainQueue(QueueState))
  /\ lastOp' = "processAllInput"
  /\ UNCHANGED <<bleVars, workerVars, radioVars, uiVars, decoderVars, historyVars,
                 budgetVars, now, attempt>>

\* dispatchEvent, SETTINGS, Enter on "Bluetooth" (input_handler.cpp 398-399)
UiOpenBluetooth ==
  /\ mainPc = "loop"
  /\ currentState = "SETTINGS"
  /\ currentState' = "BLUETOOTH_SETTINGS"
  /\ ApplyMain(MainState)
  /\ lastOp' = "UiOpenBluetooth"
  /\ UserKey

\* dispatchEvent, SETTINGS, Enter on "Clear bonds" (input_handler.cpp 400-401)
UiClearBonds ==
  /\ mainPc = "loop"
  /\ currentState = "SETTINGS"
  /\ ApplyMain(clearAllBluetoothBonds(MainState))
  /\ currentState' = currentState
  /\ lastOp' = "clearAllBluetoothBonds"
  /\ UserKey

\* dispatchEvent, BLUETOOTH_SETTINGS, Escape (input_handler.cpp 440-443)
UiEscape ==
  /\ mainPc = "loop"
  /\ currentState = "BLUETOOTH_SETTINGS"
  /\ currentState' = "SETTINGS"
  /\ ApplyMain(MainState)
  /\ lastOp' = "UiEscape"
  /\ UserKey

\* dispatchEvent, BLUETOOTH_SETTINGS, Enter (input_handler.cpp 457-465):
\* connect to the selected entry
UiConnect ==
  /\ mainPc = "loop"
  /\ currentState = "BLUETOOTH_SETTINGS"
  /\ Len(discoveredDevices) > 0 /\ ~isScanning
  /\ \E sel \in 0..(Len(discoveredDevices) - 1) :
       ApplyMain(connectToDevice(MainState, sel))
  /\ currentState' = currentState
  /\ lastOp' = "connectToDevice"
  /\ UserKey

\* dispatchEvent, BLUETOOTH_SETTINGS: Enter on an empty list (461-464) or
\* Right (466-470) starts a scan when none is running
UiScan ==
  /\ mainPc = "loop"
  /\ currentState = "BLUETOOTH_SETTINGS"
  /\ ~isScanning
  /\ ApplyMain(startDeviceScan(MainState))
  /\ currentState' = currentState
  /\ lastOp' = "startDeviceScan"
  /\ UserKey

\* dispatchEvent, BLUETOOTH_SETTINGS, Left (472-476)
UiDisconnect ==
  /\ mainPc = "loop"
  /\ currentState = "BLUETOOTH_SETTINGS"
  /\ bleState = "CONNECTED"                     \* isKeyboardConnected()
  /\ ApplyMain(disconnectCurrentDevice(MainState))
  /\ currentState' = currentState
  /\ lastOp' = "disconnectCurrentDevice"
  /\ UserKey

-----------------------------------------------------------------------------
(* The connect worker: bleConnectTask, lines 349-432 *)

Handles == [ok |-> FALSE, service |-> pRemoteService, input |-> pInputReportChar,
            subs |-> subscribed, proto |-> protoWritten]

\* line 382: the wait for the authentication callback ends
AuthWaitOverNoTimeout(ok, elapsed) == ok
AuthWaitOver(ok, elapsed) == ok \/ elapsed >= SECURITY_WAIT_MS

\* lines 350-361
WorkerStart ==
  /\ wpc = "start"
  /\ bleState' = "CONNECTING"
  /\ authSuccess' = FALSE
  /\ pClient' = TRUE
  /\ wpc' = "connect"
  /\ lastOp' = "WorkerStart"
  /\ UNCHANGED <<connectToKeyboard, keyboardAddress, keyboardAddressType, prefs,
                 autoReconnectEnabled, reconnectDelay, lastReconnectAttempt,
                 bleConnIdleMode, discoveredDevices, isScanning, connectTaskHandle,
                 currentPasskey, pRemoteService, pInputReportChar, secStart,
                 radioVars, uiVars, queueVars, decoderVars, historyVars, budgetVars, now, attempt>>

\* a link to the target can be established
Reachable(address, addressType) ==
  \E p \in Peripherals : p.address = address /\ p.addressType = addressType

\* lines 363-371: pClient->connect(addr) returns
WorkerConnect ==
  /\ wpc = "connect"
  /\ \/ /\ Reachable(keyboardAddress, keyboardAddressType)
        /\ ~linkUp
        /\ linkUp' = TRUE
        /\ linkPeer' = keyboardAddress
        /\ wpc' = "secure"
        /\ attempt' = [attempt EXCEPT !.links = attempt.links + 1]
     \/ /\ wpc' = "linkFail"
        /\ attempt' = [attempt EXCEPT !.outcome = "linkFail"]
        /\ UNCHANGED <<linkUp, linkPeer>>
  /\ lastOp' = "WorkerConnect"
  /\ UNCHANGED <<bleVars, secStart, termPending, peer, secPending, subscribed,
                 protoWritten, scanActive, bonds, connParams, uiVars, queueVars,
                 decoderVars, historyVars, budgetVars, now>>

\* a failure path that ends without writing bleState
WorkerLinkFailKeepsState ==
  /\ wpc = "linkFail"
  /\ wpc' = "exit"
  /\ lastOp' = "WorkerLinkFail"
  /\ UNCHANGED <<bleVars, secStart, radioVars, uiVars, queueVars,
                 decoderVars, historyVars, budgetVars, now, attempt>>

\* lines 366-367 of the failure path
WorkerLinkFail ==
  /\ wpc = "linkFail"
  /\ bleState' = "DISCONNECTED"
  /\ wpc' = "exit"
  /\ lastOp' = "WorkerLinkFail"
  /\ UNCHANGED <<connectToKeyboard, keyboardAddress, keyboardAddressType, prefs,
                 autoReconnectEnabled, reconnectDelay, lastReconnectAttempt,
                 bleConnIdleMode, discoveredDevices, isScanning, connectTaskHandle,
                 authSuccess, currentPasskey, pClient, pRemoteService,
                 pInputReportChar, secStart, radioVars, uiVars, queueVars,
                 decoderVars, historyVars, budgetVars, now, attempt>>

\* lines 375-393: secureConnection()
WorkerSecure ==
  /\ wpc = "secure"
  /\ \/ /\ linkUp                         \* secureAttempted
        /\ secPending' = TRUE
        /\ secStart' = now
        /\ wpc' = "authWait"
     \/ /\ wpc' = "hid"                   \* secureConnection() returned false
        /\ UNCHANGED <<secPending, secStart>>
  /\ lastOp' = "WorkerSecure"
  /\ UNCHANGED <<bleVars, linkUp, termPending, linkPeer, peer, subscribed,
                 protoWritten, scanActive, bonds, connParams, uiVars, queueVars,
                 decoderVars, historyVars, budgetVars, now, attempt>>

\* lines 381-390: the polling loop ends (an iteration that keeps waiting
\* changes nothing)
WorkerAuthWait ==
  /\ wpc = "authWait"
  /\ AuthWaitOver(authSuccess, now - secStart)
  /\ wpc' = "hid"
  /\ secStart' = 0                      \* the local goes out of use
  /\ lastOp' = "WorkerAuthWait"
  /\ UNCHANGED <<bleVars, radioVars, uiVars, queueVars, decoderVars,
                 historyVars, budgetVars, now, attempt>>

\* lines 397-398: setupHidConnection() on what the peripheral exposes
HidStep(profiles) ==
  /\ wpc = "hid"
  /\ \E prof \in (IF linkUp THEN profiles ELSE {NoProfile}) :
       LET r == setupHidConnection(pClient /\ linkUp, prof, Handles)
       IN  /\ pRemoteService' = r.service
           /\ pInputReportChar' = r.input
           /\ subscribed' = r.subs
           /\ protoWritten' = r.proto
           /\ peer' = prof
           /\ wpc' = IF r.ok THEN "store" ELSE "hidFail"
           /\ attempt' = IF r.ok THEN attempt ELSE [attempt EXCEPT !.outcome = "hidFail"]
  /\ lastOp' = "WorkerHid"
  /\ UNCHANGED <<bleState, connectToKeyboard, keyboardAddress, keyboardAddressType,
                 prefs, autoReconnectEnabled, reconnectDelay, lastReconnectAttempt,
                 bleConnIdleMode, discoveredDevices, isScanning, connectTaskHandle,
                 authSuccess, currentPasskey, pClient, secStart, linkUp, termPending,
                 linkPeer, secPending, scanActive, bonds, connParams, uiVars,
                 queueVars, decoderVars, historyVars, budgetVars, now>>

WorkerHid == HidStep(Profiles)

\* lines 399-401 of the failure path
HidFailNoDisconnect(up) == FALSE
HidFailDisconnects(up) == up
WorkerHidFail ==
  /\ wpc = "hidFail"
  /\ termPending' = (termPending \/ HidFailDisconnects(linkUp))   \* line 400
  /\ bleState' = "DISCONNECTED"
  /\ wpc' = "exit"
  /\ lastOp' = "WorkerHidFail"
  /\ UNCHANGED <<connectToKeyboard, keyboardAddress, keyboardAddressType, prefs,
                 autoReconnectEnabled, reconnectDelay, lastReconnectAttempt,
                 bleConnIdleMode, discoveredDevices, isScanning, connectTaskHandle,
                 authSuccess, currentPasskey, pClient, pRemoteService,
                 pInputReportChar, secStart, linkUp, linkPeer, peer, secPending,
                 subscribed, protoWritten, scanActive, bonds, connParams, uiVars,
                 queueVars, decoderVars, historyVars, budgetVars, now, attempt>>

\* lines 407-424: persist the device, request the active parameters
WorkerStore ==
  /\ wpc = "store"
  /\ LET stored == getStoredDevice(prefs)
         write == ~stored.found \/ stored.address # keyboardAddress
     IN  /\ prefs' = IF write
                       THEN storePairedDevice(keyboardAddress,
                              devNameFrom(discoveredDevices, keyboardAddress, 1),
                              keyboardAddressType)
                       ELSE prefs
         /\ attempt' = IF write THEN [attempt EXCEPT !.stored = TRUE] ELSE attempt
  /\ connParams' = IF linkUp THEN ActiveParams ELSE connParams
  /\ bleConnIdleMode' = FALSE
  /\ lastBleKeystrokeMs' = now
  /\ wpc' = "connected"
  /\ lastOp' = "WorkerStore"
  /\ UNCHANGED <<bleState, connectToKeyboard, keyboardAddress, keyboardAddressType,
                 autoReconnectEnabled, reconnectDelay, lastReconnectAttempt,
                 discoveredDevices, isScanning, connectTaskHandle, authSuccess,
                 currentPasskey, pClient, pRemoteService, pInputReportChar, secStart,
                 linkUp, termPending, linkPeer, peer, secPending, subscribed,
                 protoWritten, scanActive, bonds, uiVars, queueVars, lastReport,
                 historyVars, budgetVars, now>>

\* line 428: the backoff delay after a successful connection
ConnectedDelayKept(d) == d
ConnectedDelay(d) == RECONNECT_DELAY_FLOOR

\* lines 426-428
WorkerConnected ==
  /\ wpc = "connected"
  /\ bleState' = "CONNECTED"
  /\ reconnectDelay' = ConnectedDelay(reconnectDelay)
  /\ attempt' = [attempt EXCEPT !.sawConnected = TRUE, !.reset = TRUE,
                                !.streak = 0,
                                !.outcome = "connected"]
  /\ wpc' = "exit"
  /\ lastOp' = "WorkerConnected"
  /\ UNCHANGED <<connectToKeyboard, keyboardAddress, keyboardAddressType, prefs,
                 autoReconnectEnabled, lastReconnectAttempt, bleConnIdleMode,
                 discoveredDevices, isScanning, connectTaskHandle, authSuccess,
                 currentPasskey, pClient, pRemoteService, pInputReportChar, secStart,
                 radioVars, uiVars, queueVars, decoderVars, historyVars, budgetVars, now>>

\* connectTaskHandle = nullptr; vTaskDelete(NULL) (lines 368-369, 402-403, 430-431)
WorkerExit ==
  /\ wpc = "exit"
  /\ connectTaskHandle' = "null"
  /\ wpc' = "none"
  /\ lastOp' = "WorkerExit"
  /\ UNCHANGED <<bleState, connectToKeyboard, keyboardAddress, keyboardAddressType,
                 prefs, autoReconnectEnabled, reconnectDelay, lastReconnectAttempt,
                 bleConnIdleMode, discoveredDevices, isScanning, authSuccess,
                 currentPasskey, pClient, pRemoteService, pInputReportChar, secStart,
                 radioVars, uiVars, queueVars, decoderVars, historyVars, budgetVars, now, attempt>>

-----------------------------------------------------------------------------
(* Callbacks of the radio stack *)

\* onKeyboardNotify, lines 94-155
Notify(pData) ==
  /\ IF ~LengthAccepted(Len(pData))
       THEN /\ UNCHANGED <<lastReport, lastBleKeystrokeMs, queueVars>>     \* 100-103
            /\ emitted' = <<>>
       ELSE LET newReport == Normalize(pData)
                evs == DiffEvents(newReport, lastReport, pData[1])
            IN  /\ SetQueue(EnqueueAll(QueueState, evs))                   \* 125-149
                /\ lastReport' = newReport                                 \* 151
                /\ lastBleKeystrokeMs' = now                               \* 154
                /\ emitted' = evs
  /\ prevReport' = lastReport
  /\ lastPayload' = pData
  /\ notifyCount' = notifyCount + 1
  /\ lastOp' = "onKeyboardNotify"
  /\ UNCHANGED <<bleVars, workerVars, radioVars, uiVars, budgetVars, now, attempt>>

\* a subscribed characteristic of the connected keyboard notifies
OnKeyboardNotify ==
  /\ linkUp /\ subscribed # {}
  /\ notifyCount < MaxNotify
  /\ \E pData \in LinkPayloads : Notify(pData)

\* ClientCallbacks::onDisconnect, lines 177-185, on the stack's disconnect
\* event (link loss, or a local disconnect() completing)
DisconnectKeepsReport(r) == r
DisconnectReport(r) == ZeroReport
OnDisconnect ==
  /\ linkUp
  /\ linkUp' = FALSE
  /\ termPending' = FALSE
  /\ linkPeer' = ""
  /\ peer' = NoProfile
  /\ secPending' = FALSE
  /\ subscribed' = {}
  /\ protoWritten' = FALSE
  /\ bleState' = "DISCONNECTED"
  /\ pInputReportChar' = 0
  /\ pRemoteService' = FALSE
  /\ authSuccess' = FALSE
  /\ lastReport' = DisconnectReport(lastReport)
  /\ lastReconnectAttempt' = now
  /\ lastOp' = "onDisconnect"
  /\ UNCHANGED <<connectToKeyboard, keyboardAddress, keyboardAddressType, prefs,
                 autoReconnectEnabled, reconnectDelay, bleConnIdleMode,
                 discoveredDevices, isScanning, connectTaskHandle, currentPasskey,
                 pClient, workerVars, scanActive, bonds, connParams, uiVars,
                 queueVars, lastBleKeystrokeMs, historyVars, budgetVars, now, attempt>>

\* ClientCallbacks::onConfirmPasskey, lines 208-214
OnConfirmPasskey ==
  /\ linkUp /\ secPending
  /\ \E pin \in Passkeys : currentPasskey' = pin
  /\ lastOp' = "onConfirmPasskey"
  /\ UNCHANGED <<bleState, connectToKeyboard, keyboardAddress, keyboardAddressType,
                 prefs, autoReconnectEnabled, reconnectDelay, lastReconnectAttempt,
                 bleConnIdleMode, discoveredDevices, isScanning, connectTaskHandle,
                 authSuccess, pClient, pRemoteService, pInputReportChar, workerVars,
                 radioVars, uiVars, queueVars, decoderVars, historyVars, budgetVars, now, attempt>>

\* ClientCallbacks::onAuthenticationComplete, lines 216-230
OnAuthenticationComplete ==
  /\ linkUp /\ secPending
  /\ \E encrypted \in BOOLEAN :
       /\ authSuccess' = encrypted
       /\ bonds' = (bonds \/ encrypted)
  /\ currentPasskey' = 0
  /\ secPending' = FALSE
  /\ lastOp' = "onAuthenticationComplete"
  /\ UNCHANGED <<bleState, connectToKeyboard, keyboardAddress, keyboardAddressType,
                 prefs, autoReconnectEnabled, reconnectDelay, lastReconnectAttempt,
                 bleConnIdleMode, discoveredDevices, isScanning, connectTaskHandle,
                 pClient, pRemoteService, pInputReportChar, workerVars, linkUp,
                 termPending, linkPeer, peer, subscribed, protoWritten, scanActive,
                 connParams, uiVars, queueVars, decoderVars, historyVars, budgetVars, now, attempt>>

\* lines 190-195: the range accepted for a request [itvl_min, itvl_max]
ClampParams(idle, reqMin, reqMax) ==
  LET floorMin == IF idle THEN CONN_INTERVAL_IDLE_MIN ELSE CONN_INTERVAL_ACTIVE_MIN
      floorMax == IF idle THEN CONN_INTERVAL_IDLE_MAX ELSE CONN_INTERVAL_ACTIVE_MAX
      latency  == IF idle THEN CONN_SLAVE_LATENCY_IDLE ELSE CONN_SLAVE_LATENCY_ACTIVE
      itvlMin  == IF reqMin > floorMin THEN reqMin ELSE floorMin
      itvlMax0 == IF reqMax > floorMax THEN reqMax ELSE floorMax
      itvlMax  == IF itvlMin > itvlMax0 THEN itvlMin ELSE itvlMax0
  IN  ConnParams(itvlMin, itvlMax, latency, CONN_SUPERVISION_TIMEOUT)

\* ClientCallbacks::onConnParamsUpdateRequest, lines 187-200
OnConnParamsUpdateRequest ==
  /\ linkUp
  /\ \E req \in ParamRequests :
       /\ connParams' = ClampParams(bleConnIdleMode, req[1], req[2])
       /\ connParams' # connParams
  /\ lastOp' = "onConnParamsUpdateRequest"
  /\ UNCHANGED <<bleVars, workerVars, linkUp, termPending, linkPeer, peer,
                 secPending, subscribed, protoWritten, scanActive, bonds, uiVars,
                 queueVars, decoderVars, historyVars, budgetVars, now, attempt>>

\* ScanCallbacks::onResult, lines 159-169
\* onResult connecting to what it sights
ScanResultConnects(advertisers) ==
  /\ scanActive
  /\ \E dev \in advertisers :
       /\ discoveredDevices' = upsertDevice(discoveredDevices, SightingInfo(dev, now))
       /\ sighted' = [sighted EXCEPT ![dev.address] = SightingInfo(dev, now)]
       /\ keyboardAddress' = dev.address
       /\ keyboardAddressType' = dev.addressType
  /\ connectToKeyboard' = TRUE
  /\ discoveredDevices' # discoveredDevices
  /\ lastOp' = "onResult"
  /\ UNCHANGED <<bleState,
                 prefs, autoReconnectEnabled, reconnectDelay, lastReconnectAttempt,
                 bleConnIdleMode, isScanning, connectTaskHandle, authSuccess,
                 currentPasskey, pClient, pRemoteService, pInputReportChar,
                 workerVars, radioVars, uiVars, queueVars, decoderVars,
                 historyVars, uiCount, now, attempt>>
ScanResult(advertisers) ==
  /\ scanActive
  /\ \E dev \in advertisers :
       /\ discoveredDevices' = upsertDevice(discoveredDevices, SightingInfo(dev, now))
       /\ sighted' = [sighted EXCEPT ![dev.address] = SightingInfo(dev, now)]
  /\ discoveredDevices' # discoveredDevices
  /\ lastOp' = "onResult"
  /\ UNCHANGED <<bleState, connectToKeyboard, keyboardAddress, keyboardAddressType,
                 prefs, autoReconnectEnabled, reconnectDelay, lastReconnectAttempt,
                 bleConnIdleMode, isScanning, connectTaskHandle, authSuccess,
                 currentPasskey, pClient, pRemoteService, pInputReportChar,
                 workerVars, radioVars, uiVars, queueVars, decoderVars,
                 historyVars, uiCount, now, attempt>>

OnResult == ScanResult(Advertisers)

\* the stack ends the one-shot scan started at line 565
ScanComplete ==
  /\ scanActive
  /\ scanActive' = FALSE
  /\ lastOp' = "scanComplete"
  /\ UNCHANGED <<bleVars, workerVars, linkUp, termPending, linkPeer, peer,
                 secPending, subscribed, protoWritten, bonds, connParams, uiVars,
                 queueVars, decoderVars, historyVars, budgetVars, now, attempt>>

-----------------------------------------------------------------------------
(* Time *)

\* millis() advances; the worker's polling loop (100 ms period) is served
\* before the clock moves on once its wait is over
Tick(limit) ==
  /\ mainPc = "loop"
  /\ ~(wpc = "authWait" /\ AuthWaitOver(authSuccess, now - secStart))
  /\ \E d \in TickSteps :
       /\ now + d <= limit * TickUnit
       /\ now' = now + d
  /\ lastOp' = "tick"
  /\ UNCHANGED <<bleVars, workerVars, radioVars, uiVars, queueVars, decoderVars,
                 historyVars, budgetVars, attempt>>

-----------------------------------------------------------------------------
(* The connection specification *)

\* the state after static initialisation, before setup(); the NVS may hold
\* the record of an earlier pairing
StoredAtBoot == { NoRecord, storePairedDevice("A", "Keys", 0) }

Init ==
  /\ bleState = "DISCONNECTED"
  /\ connectToKeyboard = FALSE
  /\ keyboardAddress = ""
  /\ keyboardAddressType = 0
  /\ lastReport = ZeroReport
  /\ prefs \in StoredAtBoot
  /\ autoReconnectEnabled = TRUE
  /\ reconnectDelay = RECONNECT_DELAY_FLOOR
  /\ lastReconnectAttempt = 0
  /\ lastBleKeystrokeMs = 0
  /\ bleConnIdleMode = FALSE
  /\ discoveredDevices = <<>>
  /\ isScanning = FALSE
  /\ connectTaskHandle = "null"
  /\ authSuccess = FALSE
  /\ currentPasskey = 0
  /\ pClient = FALSE
  /\ pRemoteService = FALSE
  /\ pInputReportChar = 0
  /\ wpc = "none"
  /\ secStart = 0
  /\ linkUp = FALSE
  /\ termPending = FALSE
  /\ linkPeer = ""
  /\ peer = NoProfile
  /\ secPending = FALSE
  /\ subscribed = {}
  /\ protoWritten = FALSE
  /\ scanActive = FALSE
  /\ bonds \in {prefs # NoRecord}
  /\ connParams = NoParams
  /\ mainPc = "setup"
  /\ currentState = "SETTINGS"
  /\ lastState = "SETTINGS"
  /\ inputQueue = [i \in 0..(INPUT_QUEUE_SIZE - 1) |-> NoEvent]
  /\ queueHead = 0
  /\ queueTail = 0
  /\ queueFull = FALSE
  /\ now = 0
  /\ lastOp = "init"
  /\ prevReport = ZeroReport
  /\ lastPayload = <<>>
  /\ emitted = <<>>
  /\ notifyCount = 0
  /\ uiCount = 0
  /\ sighted = NoSightings
  /\ attempt = NoAttempt

ClockTick == Tick(MaxTicks)

Next ==
  \/ BleSetup
  \/ Loop
  \/ ProcessAllInput
  \/ UiOpenBluetooth
  \/ UiClearBonds
  \/ UiEscape
  \/ UiConnect
  \/ UiScan
  \/ UiDisconnect
  \/ WorkerStart
  \/ WorkerConnect
  \/ WorkerLinkFail
  \/ WorkerSecure
  \/ WorkerAuthWait
  \/ WorkerHid
  \/ WorkerHidFail
  \/ WorkerStore
  \/ WorkerConnected
  \/ WorkerExit
  \/ OnKeyboardNotify
  \/ OnDisconnect
  \/ OnConfirmPasskey
  \/ OnAuthenticationComplete
  \/ OnResult
  \/ ScanComplete
  \/ ClockTick

Spec == Init /\ [][Next]_vars

-----------------------------------------------------------------------------
(* The decoder specification: a connected keyboard sends reports *)

\* the 8-byte reports [mod, 0x00, k1..k6] with keycodes in the probe slots
Reports8 ==
  { [i \in 1..8 |-> IF i = 1 THEN m
                    ELSE IF (i - 1) \in ProbeSlots THEN f[i - 1]
                    ELSE 0] : m \in Modifiers, f \in [ProbeSlots -> 0..MaxKey] }

\* reports that fill the slots in between, and all six
FullReports == { <<2, 0, 1, 2, 3, 1, 2, 3>>, <<0, 0, 3, 0, 1, 0, 2, 0>> }

\* the compact layout [mod, k1..k6] of an 8-byte report
Compact(p8) == <<p8[1]>> \o SubSeq(p8, 3, 8)

Reports7 == { Compact(p8) : p8 \in Reports8 \cup FullReports }

\* payloads of other lengths: empty, 6 bytes, 9 bytes
OtherPayloads ==
  { <<>>, <<2, 1, 2, 0, 0, 0>>, <<2, 0, 1, 2, 0, 0, 0, 3, 0>> }

DecoderPayloads == Reports8 \cup FullReports \cup Reports7 \cup OtherPayloads

\* the state of the connection specification after a start with a stored
\* keyboard A that exposes a notifying report characteristic without a
\* Report Reference descriptor: connected, subscribed, worker gone
InitDecoder ==
  /\ bleState = "CONNECTED"
  /\ connectToKeyboard = FALSE
  /\ keyboardAddress = "A"
  /\ keyboardAddressType = 0
  /\ lastReport = ZeroReport
  /\ prefs = storePairedDevice("A", "Keys", 0)
  /\ autoReconnectEnabled = TRUE
  /\ reconnectDelay = RECONNECT_DELAY_FLOOR
  /\ lastReconnectAttempt = 0
  /\ lastBleKeystrokeMs = 0
  /\ bleConnIdleMode = FALSE
  /\ discoveredDevices = <<>>
  /\ isScanning = FALSE
  /\ connectTaskHandle = "null"
  /\ authSuccess = FALSE
  /\ currentPasskey = 0
  /\ pClient = TRUE
  /\ pRemoteService = TRUE
  /\ pInputReportChar = 1
  /\ wpc = "none"
  /\ secStart = 0
  /\ linkUp = TRUE
  /\ termPending = FALSE
  /\ linkPeer = "A"
  /\ peer = Profile(TRUE, TRUE, FALSE, <<Chr("report", TRUE, 0, TRUE)>>)
  /\ secPending = FALSE
  /\ subscribed = {1}
  /\ protoWritten = FALSE
  /\ scanActive = FALSE
  /\ bonds = TRUE
  /\ connParams = ActiveParams
  /\ mainPc = "loop"
  /\ currentState = "SETTINGS"
  /\ lastState = "SETTINGS"
  /\ inputQueue = [i \in 0..(INPUT_QUEUE_SIZE - 1) |-> NoEvent]
  /\ queueHead = 0
  /\ queueTail = 0
  /\ queueFull = FALSE
  /\ now = 0
  /\ lastOp = "WorkerExit"
  /\ prevReport = ZeroReport
  /\ lastPayload = <<>>
  /\ emitted = <<>>
  /\ notifyCount = 0
  /\ uiCount = 0
  /\ sighted = NoSightings
  /\ attempt = [NoAttempt EXCEPT !.kind = "startup", !.reset = TRUE, !.links = 1,
                                 !.sawConnected = TRUE, !.outcome = "connected"]

\* the subscribed characteristic notifies with any payload
DecoderNotify ==
  /\ linkUp /\ subscribed # {}
  /\ (notifyCount + 1) \in DecoderRounds
  /\ \E pData \in DecoderPayloads : Notify(pData)

DecoderTick == Tick(DecTicks)

NextDecoder ==
  \/ DecoderNotify
  \/ DecoderTick

SpecDecoder == InitDecoder /\ [][NextDecoder]_vars

-----------------------------------------------------------------------------
(* What a delivery did, read from the queue and the retained report *)

\* the events waiting in the queue, oldest first
QueueSeq(q) ==
  LET n == IF q.full THEN INPUT_QUEUE_SIZE
           ELSE (q.head - q.tail + INPUT_QUEUE_SIZE) % INPUT_QUEUE_SIZE
  IN  [i \in 1..n |-> q.buf[(q.tail + i - 1) % INPUT_QUEUE_SIZE]]

\* the events a step appended to the queue
NewEvents ==
  SubSeq(QueueSeq(QueueState'), Len(QueueSeq(QueueState)) + 1,
         Len(QueueSeq(QueueState')))

\* a step that delivers a notification; lastPayload' is its payload
Delivered == notifyCount' = notifyCount + 1

\* the six keycode bytes of a 7- or 8-byte payload, and of a retained report
PayloadKeys(p) == [k \in 1..6 |-> p[Len(p) - 6 + k]]
ReportKeys(r) == [k \in 1..6 |-> r[k + 2]]

SlotCount(keys, k) == Cardinality({ i \in 1..6 : keys[i] = k })

EventCount(evs, k, p) ==
  Cardinality({ i \in 1..Len(evs) : evs[i].keyCode = k /\ evs[i].pressed = p })

\* the key slots hold x once, y once and nothing else
HoldsExactly(keys, x, y) ==
  x # y /\ SlotCount(keys, x) = 1 /\ SlotCount(keys, y) = 1 /\ SlotCount(keys, 0) = 4

-----------------------------------------------------------------------------
(* Claims on the report decoder, checked under SpecDecoder *)

\* C1: a delivery of an accepted report appends, for each slot of the new
\* report holding a non-zero keycode that no slot of the previous report
\* holds, one press event, and for each slot of the previous report holding
\* a non-zero keycode that no slot of the new report holds, one release
\* event, and nothing else; every appended event carries the modifier byte
\* of the new report; afterwards the retained report is the new report in
\* the 8-byte layout.
C1_DiffIsExact ==
  [][ (Delivered /\ Len(lastPayload') \in {7, 8}) =>
        LET p  == lastPayload'
            nk == PayloadKeys(p)
            pk == ReportKeys(lastReport)
            E  == NewEvents
            K  == {0} \cup { nk[i] : i \in 1..6 } \cup { pk[i] : i \in 1..6 }
                      \cup { E[i].keyCode : i \in 1..Len(E) }
        IN  /\ \A k \in K :
                 /\ EventCount(E, k, TRUE) =
                      IF k # 0 /\ SlotCount(pk, k) = 0 THEN SlotCount(nk, k) ELSE 0
                 /\ EventCount(E, k, FALSE) =
                      IF k # 0 /\ SlotCount(nk, k) = 0 THEN SlotCount(pk, k) ELSE 0
            /\ \A i \in 1..Len(E) : E[i].modifiers = p[1]
            /\ lastReport' = <<p[1], IF Len(p) = 8 THEN p[2] ELSE 0>> \o nk
    ]_vars

\* a second delivery that pressed one key and released another, with a
\* modifier held
C1_Witness ==
  /\ lastOp = "onKeyboardNotify" /\ notifyCount = 2
  /\ Len(lastPayload) \in {7, 8} /\ lastPayload[1] # 0
  /\ \E i, j \in 1..Len(emitted) : emitted[i].pressed /\ ~emitted[j].pressed
  /\ lastReport # prevReport

\* C2 (as stated): with the previous report holding exactly A and B and the
\* new report exactly B and C, the delivery appends release(A) and then
\* press(C), and nothing else.
C2_ReleaseThenPress ==
  [][ \A a, b, c \in 1..MaxKey :
        ( /\ Delivered /\ Len(lastPayload') \in {7, 8}
          /\ c # a
          /\ HoldsExactly(ReportKeys(lastReport), a, b)
          /\ HoldsExactly(PayloadKeys(lastPayload'), b, c) )
        => NewEvents = << KeyEvent(a, lastPayload'[1], FALSE),
                          KeyEvent(c, lastPayload'[1], TRUE) >>
    ]_vars

\* C2 (amended): with the previous report holding exactly A and B and the
\* new report exactly B and C, the delivery appends press(C) and then
\* release(A), and nothing else: one press, one release, no event for B,
\* the press enqueued first.
C2_PressThenRelease ==
  [][ \A a, b, c \in 1..MaxKey :
        ( /\ Delivered /\ Len(lastPayload') \in {7, 8}
          /\ c # a
          /\ HoldsExactly(ReportKeys(lastReport), a, b)
          /\ HoldsExactly(PayloadKeys(lastPayload'), b, c) )
        => NewEvents = << KeyEvent(c, lastPayload'[1], TRUE),
                          KeyEvent(a, lastPayload'[1], FALSE) >>
    ]_vars

\* a delivery of {B,C} on a retained {A,B} has happened
C2_Witness ==
  /\ lastOp = "onKeyboardNotify" /\ notifyCount = 2
  /\ Len(lastPayload) \in {7, 8}
  /\ \E a, b, c \in 1..MaxKey :
       /\ c # a
       /\ HoldsExactly(ReportKeys(prevReport), a, b)
       /\ HoldsExactly(PayloadKeys(lastPayload), b, c)
       /\ HoldsExactly(ReportKeys(lastReport), b, c)

\* C3: when an accepted payload is delivered again right after itself, the
\* second delivery appends no event, whatever the payload holds.
C3_RepeatIsSilent ==
  [][ ( /\ Delivered /\ Len(lastPayload') \in {7, 8}
        /\ notifyCount >= 1
        /\ lastPayload' = lastPayload )
      => NewEvents = <<>>
    ]_vars

\* the same payload was delivered twice; it repeats a keycode in two slots
\* and fills the last slot
C3_Witness ==
  /\ lastOp = "onKeyboardNotify" /\ notifyCount = 2
  /\ Len(lastPayload) \in {7, 8}
  /\ ReportKeys(prevReport) = PayloadKeys(lastPayload)
  /\ prevReport[1] = lastPayload[1]
  /\ \E i, j \in 1..6 : i # j /\ PayloadKeys(lastPayload)[i] # 0
                        /\ PayloadKeys(lastPayload)[i] = PayloadKeys(lastPayload)[j]
  /\ PayloadKeys(lastPayload)[6] # 0
  /\ emitted = <<>>

\* the 8-byte payload [mod, 0x00, k1..k6] of a 7-byte payload [mod, k1..k6]
Expand(p7) == <<p7[1], 0>> \o Tail(p7)

\* C4: from every retained report, the delivery of a 7-byte payload
\* [mod, k1..k6] appends the events, and leaves the retained report, that
\* the delivery of the 8-byte payload [mod, 0x00, k1..k6] gives from the
\* same state.
C4_CompactEqualsStandard ==
  [][ (Delivered /\ Len(lastPayload') = 7) =>
        LET p8 == Expand(lastPayload')
        IN  /\ NewEvents = DiffEvents([i \in 1..8 |-> p8[i]], lastReport, p8[1])
            /\ lastReport' = [i \in 1..8 |-> p8[i]]
    ]_vars

\* a 7-byte payload was decoded against a non-zero retained report and
\* produced a press and a release
C4_Witness ==
  /\ lastOp = "onKeyboardNotify" /\ notifyCount = 2
  /\ Len(lastPayload) = 7
  /\ prevReport # ZeroReport
  /\ \E i, j \in 1..Len(emitted) : emitted[i].pressed /\ ~emitted[j].pressed
  /\ lastReport[8] # 0

\* C5: a delivery whose payload length is neither 7 nor 8 appends no event
\* and leaves the retained report and lastBleKeystrokeMs as they were.
C5_OtherLengthsDropped ==
  [][ (Delivered /\ Len(lastPayload') \notin {7, 8}) =>
        /\ NewEvents = <<>>
        /\ UNCHANGED <<lastReport, lastBleKeystrokeMs, queueVars>>
    ]_vars

\* a 9-byte payload with keycodes arrived after keys were held and the
\* clock had moved on
C5_Witness ==
  /\ lastOp = "onKeyboardNotify" /\ notifyCount = 2
  /\ Len(lastPayload) = 9
  /\ \E i \in 1..9 : lastPayload[i] # 0
  /\ lastReport # ZeroReport
  /\ now > lastBleKeystrokeMs
  /\ emitted = <<>>

-----------------------------------------------------------------------------
(* Claims on the connection flow, checked under Spec *)

AllowedTransitions ==
  { <<"DISCONNECTED", "CONNECTING">>, <<"CONNECTING", "CONNECTED">>,
    <<"CONNECTING", "DISCONNECTED">>, <<"CONNECTED", "DISCONNECTED">> }

\* C6 (as stated): every change of bleState is one of Disconnected ->
\* Connecting, Connecting -> Connected, Connecting -> Disconnected and
\* Connected -> Disconnected; in particular never Disconnected -> Connected.
C6_OnlyAllowedTransitions ==
  [][ bleState' # bleState => <<bleState, bleState'>> \in AllowedTransitions ]_vars

\* C7: right after a link-loss event, onDisconnect (the stack reports the
\* link down) or disconnectCurrentDevice (the user drops it), the input
\* characteristic and service handles are null, the retained report is all
\* zero, bleState is DISCONNECTED and lastReconnectAttempt is the current time.
C7_LinkLossClears ==
  lastOp \in {"onDisconnect", "disconnectCurrentDevice"} =>
    /\ pInputReportChar = 0
    /\ ~pRemoteService
    /\ lastReport = ZeroReport
    /\ bleState = "DISCONNECTED"
    /\ lastReconnectAttempt = now

\* the link of a connected keyboard dropped, after time had passed, while a
\* key was held
C7_Witness ==
  /\ lastOp = "onDisconnect"
  /\ now > 0
  /\ notifyCount = 1 /\ Len(lastPayload) = 8 /\ lastPayload[3] # 0
  /\ lastReport = ZeroReport
  /\ attempt.outcome = "connected"

\* C8 (as stated): when connect() fails, the failure path leaves bleState
\* DISCONNECTED with the backoff timer armed, that is the time gate of the
\* automatic reconnection is closed (now - lastReconnectAttempt is below
\* reconnectDelay), and bleState was never CONNECTED during the attempt,
\* which holds on to the end of the worker.
C8_LinkFailureArmsBackoff ==
  /\ lastOp = "WorkerLinkFail" =>
       /\ bleState = "DISCONNECTED"
       /\ ~attempt.sawConnected
       /\ now - lastReconnectAttempt < reconnectDelay
  /\ (lastOp = "WorkerExit" /\ attempt.outcome = "linkFail") =>
       /\ bleState = "DISCONNECTED"
       /\ ~attempt.sawConnected

\* C9: when setupHidConnection fails, the failure path has asked for the
\* link to be dropped if it was up and left bleState DISCONNECTED, and the
\* worker ends with bleState DISCONNECTED and connectTaskHandle null,
\* without having written the PairingRecord or reset reconnectDelay.
C9_ResolutionFailure ==
  /\ lastOp = "WorkerHidFail" =>
       /\ bleState = "DISCONNECTED"
       /\ ~linkUp \/ termPending
       /\ ~attempt.stored /\ ~attempt.reset
  /\ (lastOp = "WorkerExit" /\ attempt.outcome = "hidFail") =>
       /\ bleState = "DISCONNECTED"
       /\ connectTaskHandle = "null"
       /\ ~linkUp \/ termPending
       /\ ~attempt.stored /\ ~attempt.reset

\* the worker ended after a refused subscription on a link that was up, with
\* the disconnect requested, and an earlier pairing still on record
C9_Witness ==
  /\ lastOp = "WorkerExit" /\ attempt.outcome = "hidFail"
  /\ linkUp /\ termPending
  /\ peer.hid /\ pInputReportChar # 0 /\ subscribed = {}
  /\ prefs # NoRecord

-----------------------------------------------------------------------------
(* Claims on the worker and on connect requests, checked under Spec *)

\* C11: a worker is created only when no worker exists and
\* connectTaskHandle is null, and connectTaskHandle is null exactly when no
\* worker exists: there is never more than one worker.
C11_SingleWorker ==
  [][ /\ (wpc' = "start" /\ wpc # "start") =>
            (wpc = "none" /\ connectTaskHandle = "null")
      /\ (connectTaskHandle' = "null") <=> (wpc' = "none")
    ]_vars

\* a worker has been created for an automatic attempt, after an earlier
\* worker ran to its end, with time passed
C11_Witness ==
  /\ lastOp = "Loop" /\ wpc = "start" /\ connectTaskHandle = "task"
  /\ attempt.kind = "auto"
  /\ now >= RECONNECT_DELAY_FLOOR

\* C12 (as stated): a connectToDevice call made while a worker exists is a
\* no-op: it leaves the target (keyboardAddress, keyboardAddressType) of
\* the running attempt and the request flag connectToKeyboard as they were,
\* so that nothing is left to start an attempt once the worker has finished.
C12_RequestWhileBusyIsNoOp ==
  [][ (lastOp' = "connectToDevice" /\ connectTaskHandle # "null") =>
        /\ keyboardAddress' = keyboardAddress
        /\ keyboardAddressType' = keyboardAddressType
        /\ connectToKeyboard' = connectToKeyboard
    ]_vars

-----------------------------------------------------------------------------
(* The backoff specification: a stored keyboard, nobody at the keys, a long
   time.  The clock advances by the floor delay; between two clock steps
   the main loop iterates and the worker runs on to its next blocking call
   (connect, the authentication wait, service discovery). *)

\* clock steps of the backoff specification
BackoffTicks == 39
\* the keyboard answers a connect() when no link was established before:
\* one success, at any time, among the failures
BackoffAnswers == {0}

BackoffStep == RECONNECT_DELAY_FLOOR

InitBackoff == Init /\ prefs # NoRecord

PolicyTick(horizon) ==
  /\ mainPc = "loop"
  /\ ~(wpc = "authWait" /\ AuthWaitOver(authSuccess, now - secStart))
  /\ bleLoop(LoopHead(MainState)) = MainState     \* the loop has caught up
  /\ wpc \in {"none", "connect", "authWait", "hid"}
  /\ now + BackoffStep <= horizon * BackoffStep
  /\ now' = now + BackoffStep
  /\ lastOp' = "tick"
  /\ UNCHANGED <<bleVars, workerVars, radioVars, uiVars, queueVars, decoderVars,
                 historyVars, budgetVars, attempt>>

BackoffTick == PolicyTick(BackoffTicks)

BackoffConnect ==
  /\ WorkerConnect
  /\ linkUp' => attempt.links \in BackoffAnswers

NextBackoff ==
  \/ BleSetup
  \/ Loop
  \/ WorkerStart
  \/ BackoffConnect
  \/ WorkerLinkFail
  \/ WorkerSecure
  \/ WorkerAuthWait
  \/ WorkerHid
  \/ WorkerHidFail
  \/ WorkerStore
  \/ WorkerConnected
  \/ WorkerExit
  \/ OnDisconnect
  \/ BackoffTick

SpecBackoff == InitBackoff /\ [][NextBackoff]_vars

-----------------------------------------------------------------------------
(* Claims on the reconnection policy *)

\* min(F * 2^k, C)
BackoffDelay(k) ==
  IF RECONNECT_DELAY_FLOOR * (2 ^ k) < MAX_RECONNECT_DELAY
    THEN RECONNECT_DELAY_FLOOR * (2 ^ k)
    ELSE MAX_RECONNECT_DELAY

\* a step in which the reconnection policy requests an attempt
AutoRequested == attempt'.streak = attempt.streak + 1

\* C13: the (k+1)-th automatic request since boot or since the last
\* CONNECTED is made when at least min(F * 2^k, C) have passed since
\* lastReconnectAttempt, that value being reconnectDelay, and it leaves
\* min(F * 2^(k+1), C) as the next delay: 10 s, 20 s, 40 s, 80 s, 120 s,
\* 120 s; after a CONNECTED the count starts again, at F.
C13_BackoffSequence ==
  [][ AutoRequested =>
        /\ reconnectDelay = BackoffDelay(attempt.streak)
        /\ now - lastReconnectAttempt >= BackoffDelay(attempt.streak)
        /\ reconnectDelay' = BackoffDelay(attempt.streak + 1)
        /\ lastReconnectAttempt' = now
    ]_vars

\* the sixth automatic request in a row, made 120 s after the fifth, which
\* was made 120 s after the fourth
C13_Witness ==
  /\ lastOp = "Loop" /\ connectToKeyboard /\ attempt.reqKind = "auto"
  /\ attempt.streak = 6
  /\ now = 390000 /\ lastReconnectAttempt = now
  /\ reconnectDelay = MAX_RECONNECT_DELAY

\* C14: a step that makes bleState CONNECTED leaves reconnectDelay at the
\* floor, whatever it was, and reconnectDelay never goes down in any other
\* step.
C14_ResetOnConnected ==
  [][ /\ (bleState' = "CONNECTED" /\ bleState # "CONNECTED") =>
            reconnectDelay' = RECONNECT_DELAY_FLOOR
      /\ reconnectDelay' < reconnectDelay =>
            (bleState' = "CONNECTED" /\ bleState # "CONNECTED")
    ]_vars

\* the third automatic attempt in a row connected: the delay, 80 s by then,
\* is back at the floor
C14_Witness ==
  /\ lastOp = "WorkerConnected" /\ bleState = "CONNECTED"
  /\ attempt.kind = "auto"
  /\ now = 70000 /\ lastReconnectAttempt = now
  /\ reconnectDelay = RECONNECT_DELAY_FLOOR

\* a step in which the reconnection policy, or bleSetup at startup,
\* requests a connection to the stored keyboard
PolicyRequested ==
  \/ AutoRequested
  \/ lastOp' = "bleSetup" /\ connectToKeyboard'

\* C15: when the reconnection policy (or bleSetup) requests a connection,
\* bleState is DISCONNECTED, autoReconnectEnabled is set, the NVS holds a
\* PairingRecord and no worker exists; the target it sets is the address
\* and address type of that record.
C15_PolicyPreconditions ==
  [][ PolicyRequested =>
        /\ bleState' = "DISCONNECTED"
        /\ autoReconnectEnabled'
        /\ prefs # NoRecord /\ prefs' = prefs
        /\ connectTaskHandle = "null" /\ wpc = "none"
        /\ connectTaskHandle' = "null"
        /\ keyboardAddress' = prefs.addr
        /\ keyboardAddressType' = prefs.addrType
        /\ connectToKeyboard'
    ]_vars

\* an automatic request for the stored keyboard, 10 s after its link dropped
C15_Witness ==
  /\ lastOp = "Loop" /\ attempt.reqKind = "auto" /\ connectToKeyboard
  /\ attempt.links >= 1
  /\ now >= RECONNECT_DELAY_FLOOR /\ lastReconnectAttempt = now
  /\ keyboardAddress = prefs.addr /\ prefs # NoRecord
  /\ ~linkUp

\* a connect worker is created in this step
WorkerCreated == connectTaskHandle = "null" /\ connectTaskHandle' # "null"

\* C16: while the Bluetooth settings screen is shown, every worker that is
\* created serves a request of the user; the policy raises no request; and
\* after an iteration of loop() a pending request is one of the user.
C16_NoPolicyWorkerInSettings ==
  [][ /\ (WorkerCreated /\ currentState' = "BLUETOOTH_SETTINGS") =>
             attempt'.kind = "user"
      /\ PolicyRequested => currentState' # "BLUETOOTH_SETTINGS"
      /\ (lastOp' = "Loop" /\ currentState' = "BLUETOOTH_SETTINGS"
            /\ connectToKeyboard') => attempt'.reqKind = "user"
    ]_vars

\* the policy's request of time 10 s was cleared on entry to the screen:
\* the request was counted, the last worker is still the one of startup
C16_Witness ==
  /\ lastOp = "Loop" /\ currentState = "BLUETOOTH_SETTINGS"
  /\ lastState = "BLUETOOTH_SETTINGS"
  /\ attempt.streak = 1 /\ attempt.kind = "startup" /\ attempt.reqKind = "none"
  /\ ~connectToKeyboard /\ connectTaskHandle = "null"
  /\ ~autoReconnectEnabled

\* loop() is called forever by the runtime; the worker task is scheduled
\* whenever it can run
ReconnectTicks == 7

ReconnectTick == PolicyTick(ReconnectTicks)

NextReconnect ==
  \/ BleSetup
  \/ Loop
  \/ WorkerStart
  \/ BackoffConnect
  \/ WorkerLinkFail
  \/ WorkerSecure
  \/ WorkerAuthWait
  \/ WorkerHid
  \/ WorkerHidFail
  \/ WorkerStore
  \/ WorkerConnected
  \/ WorkerExit
  \/ OnDisconnect
  \/ ReconnectTick

SpecReconnect == InitBackoff /\ [][NextReconnect]_vars /\ WF_vars(Loop)

\* the policy's timer has run out and nothing stands in the way of a request
ReconnectDue ==
  /\ mainPc = "loop" /\ prefs # NoRecord /\ autoReconnectEnabled
  /\ currentState # "BLUETOOTH_SETTINGS"
  /\ bleState = "DISCONNECTED" /\ connectTaskHandle = "null" /\ ~linkUp
  /\ ~connectToKeyboard
  /\ now - lastReconnectAttempt >= reconnectDelay

\* C17: with a stored record and auto-reconnect enabled, (a) a request of
\* the policy comes no sooner than reconnectDelay (>= the floor) after the
\* timer was last armed and after the policy's previous request, and
\* (b) once the timer has run out the policy makes its request.
C17_OncePerInterval ==
  /\ [][ AutoRequested =>
           /\ reconnectDelay >= RECONNECT_DELAY_FLOOR
           /\ now - lastReconnectAttempt >= reconnectDelay
           /\ attempt.lastAuto >= 0 => now - attempt.lastAuto >= reconnectDelay
           /\ attempt.lastAuto <= lastReconnectAttempt
           /\ attempt'.lastAuto = now /\ lastReconnectAttempt' = now
       ]_vars
  /\ (ReconnectDue ~> (attempt.reqKind = "auto" /\ attempt.lastAuto = now))

\* the second request of the policy, 20 s after the first and 40 s before
\* the next can be made
C17_Witness ==
  /\ lastOp = "Loop" /\ attempt.reqKind = "auto" /\ attempt.streak = 2
  /\ attempt.lastAuto = now /\ now = 30000
  /\ reconnectDelay = 40000

-----------------------------------------------------------------------------
(* The link-parameter specification: a connected keyboard, the clock in
   steps of one second, loop() at any moment, reports and parameter-update
   requests of the peripheral *)

LinkTicks == 5

MaxLinkNotify == 2

LinkSteps == {1000}

\* a press, a release in the compact layout, and a payload of length 6
LinkReports == LinkPayloads \cup { <<0, 0, 0, 0, 0, 0>> }

LinkNotify ==
  /\ linkUp /\ subscribed # {}
  /\ notifyCount < MaxLinkNotify
  /\ \E pData \in LinkReports : Notify(pData)

LinkTick ==
  /\ \E d \in LinkSteps :
       /\ now + d <= LinkTicks * d
       /\ now' = now + d
  /\ lastOp' = "tick"
  /\ UNCHANGED <<bleVars, workerVars, radioVars, uiVars, queueVars, decoderVars,
                 historyVars, budgetVars, attempt>>

\* one iteration of loop(), whether or not it finds something to do
LinkLoop ==
  /\ mainPc = "loop"
  /\ ApplyMain(bleLoop(LoopHead(MainState)))
  /\ currentState' = currentState
  /\ lastOp' = "Loop"
  /\ UNCHANGED uiCount

NextLink ==
  \/ LinkNotify
  \/ LinkTick
  \/ LinkLoop
  \/ OnConnParamsUpdateRequest
  \/ OnDisconnect

SpecLink == InitDecoder /\ [][NextLink]_vars

\* loop() runs with the link up and bleState CONNECTED
TickWhileConnected ==
  lastOp' = "Loop" /\ bleState = "CONNECTED" /\ pClient /\ linkUp

\* C18 as stated: a tick with no report for at least 3 s leaves the idle
\* profile in force, a tick after a report leaves the active profile in force.
C18_IdleAtThreeSeconds ==
  [][ TickWhileConnected =>
        /\ now - lastBleKeystrokeMs >= BLE_IDLE_SWITCH_MS => bleConnIdleMode'
        /\ now - lastBleKeystrokeMs < BLE_IDLE_SWITCH_MS => ~bleConnIdleMode'
    ]_vars

\* C18, amended: a tick with no report for more than 3 s leaves the idle
\* profile in force and, if it switched, requests the idle parameters; a
\* tick at most 3 s after a report leaves the active profile in force and,
\* if it switched, requests the active parameters; nothing but a tick and
\* the worker's request of the active parameters on a new link changes the
\* profile.
C18_IdleAfterThreeSeconds ==
  [][ /\ TickWhileConnected =>
           /\ now - lastBleKeystrokeMs > BLE_IDLE_SWITCH_MS =>
                /\ bleConnIdleMode'
                /\ ~bleConnIdleMode => connParams' = IdleParams
           /\ now - lastBleKeystrokeMs <= BLE_IDLE_SWITCH_MS =>
                /\ ~bleConnIdleMode'
                /\ bleConnIdleMode => connParams' = ActiveParams
      /\ bleConnIdleMode' # bleConnIdleMode =>
           lastOp' \in {"Loop", "WorkerStore"}
    ]_vars

\* a report arrived at 1 s; the tick at 5 s has switched to the idle profile
C18_Witness ==
  /\ lastOp = "Loop" /\ bleState = "CONNECTED" /\ linkUp
  /\ notifyCount >= 1 /\ lastBleKeystrokeMs = 1000 /\ now = 5000
  /\ bleConnIdleMode /\ connParams = IdleParams

\* the bounds of the profile in force
ProfileBounds(idle) == IF idle THEN IdleParams ELSE ActiveParams

\* C19: after a parameter-update request of the peripheral, the accepted
\* range lies within the bounds of the profile in force, itvlMin <= itvlMax,
\* and latency and supervision timeout are the profile's.
C19_AcceptedRangeClamped ==
  lastOp = "onConnParamsUpdateRequest" =>
    /\ connParams.itvlMin >= ProfileBounds(bleConnIdleMode).itvlMin
    /\ connParams.itvlMax <= ProfileBounds(bleConnIdleMode).itvlMax
    /\ connParams.itvlMin <= connParams.itvlMax
    /\ connParams.latency = ProfileBounds(bleConnIdleMode).latency
    /\ connParams.timeout = CONN_SUPERVISION_TIMEOUT

-----------------------------------------------------------------------------
(* The discovery specification: no stored keyboard; the user opens the
   Bluetooth screen and scans; both peripherals advertise, one of them with
   attributes that change between sightings *)

ScanAdvertisers ==
  Peripherals \cup
    { [address |-> "B", addressType |-> 1, haveName |-> TRUE, name |-> "Kbd",
       rssi |-> 0 - 70] }

ScanOnResult == ScanResult(ScanAdvertisers)

ScanTick == Tick(MaxTicks)

NextScan ==
  \/ BleSetup
  \/ Loop
  \/ UiOpenBluetooth
  \/ UiScan
  \/ UiEscape
  \/ ScanOnResult
  \/ ScanComplete
  \/ ScanTick

InitScan == Init /\ prefs = NoRecord

SpecScan == InitScan /\ [][NextScan]_vars

\* the positions of the list that hold address a
EntriesOf(a) == { i \in 1..Len(discoveredDevices) : discoveredDevices[i].address = a }

\* C20: the discovery list holds no entry for an address not sighted since
\* the list was cleared, and exactly one entry, equal to the most recent
\* sighting, for every address that was.
C20_OneEntryPerAddress ==
  /\ \A i \in 1..Len(discoveredDevices) : discoveredDevices[i].address \in Addresses
  /\ \A a \in Addresses :
       IF sighted[a] = NoInfo
         THEN EntriesOf(a) = {}
         ELSE /\ Cardinality(EntriesOf(a)) = 1
              /\ \A i \in EntriesOf(a) : discoveredDevices[i] = sighted[a]

\* B was sighted first, then A, then B again with a name and at a later
\* time: its entry kept its place and carries the later attributes
C20_Witness ==
  /\ lastOp = "onResult" /\ Len(discoveredDevices) = 2
  /\ discoveredDevices[1].address = "B" /\ discoveredDevices[2].address = "A"
  /\ discoveredDevices[1].name = "Kbd"
  /\ discoveredDevices[1].lastSeenMs > discoveredDevices[2].lastSeenMs

\* a discovery session starts, stops or completes in this step
\* (startDeviceScan is called from the settings screen, and by loop() when
\* it first sees the screen, also while an earlier session still runs)
SessionStarts ==
  \/ lastOp' = "startDeviceScan"
  \/ /\ lastOp' = "Loop"
     /\ currentState = "BLUETOOTH_SETTINGS" /\ lastState # "BLUETOOTH_SETTINGS"

SessionStops == isScanning /\ ~isScanning'

-----------------------------------------------------------------------------
(* The resolution specification: the startup attempt for the stored
   keyboard, which exposes any HID service of up to MaxChars characteristics *)

MaxChars == 2

ResolveChars ==
  { Chr(u, n, r, ok) : u \in {"report", "boot"}, n \in BOOLEAN,
                       r \in {0, 1, 2}, ok \in BOOLEAN }

RECURSIVE CharLists(_)
CharLists(n) ==
  IF n = 0 THEN { <<>> }
  ELSE CharLists(n - 1) \cup
       { Append(cs, c) : cs \in { l \in CharLists(n - 1) : Len(l) = n - 1 },
                         c \in ResolveChars }

ResolveProfiles ==
  { Profile(TRUE, TRUE, pm, cs) : pm \in BOOLEAN, cs \in CharLists(MaxChars) }
    \cup { Profile(TRUE, FALSE, FALSE, <<>>), Profile(FALSE, FALSE, FALSE, <<>>) }

ResolveHid == HidStep(ResolveProfiles)

NextResolve ==
  \/ BleSetup
  \/ Loop
  \/ WorkerStart
  \/ WorkerConnect
  \/ WorkerLinkFail
  \/ WorkerSecure
  \/ ResolveHid
  \/ WorkerHidFail
  \/ WorkerStore
  \/ WorkerConnected
  \/ WorkerExit
  \/ OnDisconnect

SpecResolve == InitBackoff /\ [][NextResolve]_vars

\* the service has one characteristic: a notifying report characteristic
\* without Report Reference descriptor, which accepts the subscription
OnlyPlainReport(prof) ==
  /\ prof.services /\ prof.hid
  /\ Len(prof.chars) = 1
  /\ prof.chars[1] = Chr("report", TRUE, 0, TRUE)

\* C23: when the HID service exposes only a notifying report characteristic
\* without Report Reference descriptor, setupHidConnection succeeds with
\* that characteristic selected and subscribed.
C23_TierTwoSelects ==
  (lastOp = "WorkerHid" /\ OnlyPlainReport(peer)) =>
    /\ wpc = "store"
    /\ pRemoteService
    /\ pInputReportChar = 1
    /\ subscribed = {1}

C23_Witness ==
  /\ lastOp = "WorkerHid" /\ OnlyPlainReport(peer) /\ linkUp
  /\ wpc = "store" /\ pInputReportChar = 1 /\ subscribed = {1}

\* C24: whenever setupHidConnection reports success, the characteristic
\* it selected is subscribed.
C24_SelectedIsSubscribed ==
  (lastOp = "WorkerHid" /\ wpc = "store") =>
    /\ pInputReportChar # 0
    /\ pInputReportChar \in subscribed

\* C25: right after the user clears the stored device the NVS holds no
\* PairingRecord (getStoredDevice finds none) and the bonds of the radio
\* stack are deleted; the policy and bleSetup raise a request only while a
\* record exists; while no record exists no worker is created for a request
\* of the policy, and a record comes into existence only through an attempt
\* the user asked for.
C25_ClearedMeansNoRecord ==
  [][ /\ lastOp' = "clearAllBluetoothBonds" =>
           /\ prefs' = NoRecord
           /\ ~getStoredDevice(prefs').found
           /\ ~bonds'
      /\ PolicyRequested => (prefs # NoRecord /\ getStoredDevice(prefs).found)
      /\ (WorkerCreated /\ prefs = NoRecord) => attempt'.kind = "user"
      /\ (prefs = NoRecord /\ prefs' # NoRecord) => attempt.kind = "user"
    ]_vars

\* a security negotiation is under way: the link is up, secureConnection()
\* was called on it and the stack has not reported its completion, and the
\* worker that started it has not finished
PairingPending == linkUp /\ secPending /\ connectTaskHandle # "null"

-----------------------------------------------------------------------------
(* The queue specification: producers call enqueueKeyEvent, the main loop
   dequeues one event per iteration of the loop of processAllInput.  Both
   bodies run with interrupts disabled (the target is the single-core
   ESP32-C3), so each is one step.  The k-th call enqueues an event with
   key code k; emitted holds the event of the last call or dequeue. *)

MaxEnqueues == 53

QueueProduce ==
  /\ notifyCount < MaxEnqueues
  /\ LET ev == KeyEvent(notifyCount + 1, 0, TRUE)
     IN  /\ SetQueue(Enqueue(QueueState, ev))
         /\ emitted' = <<ev>>
  /\ notifyCount' = notifyCount + 1
  /\ lastOp' = "enqueueKeyEvent"
  /\ UNCHANGED <<bleVars, workerVars, radioVars, uiVars, decoderVars,
                 prevReport, lastPayload, budgetVars, now, attempt>>

QueueConsume ==
  /\ ~isQueueEmpty(QueueState)                        \* line 493
  /\ SetQueue(Dequeue(QueueState))
  /\ emitted' = <<inputQueue[queueTail]>>             \* line 83: the event returned
  /\ lastOp' = "dequeueKeyEvent"
  /\ UNCHANGED <<bleVars, workerVars, radioVars, uiVars, decoderVars,
                 prevReport, lastPayload, notifyCount, budgetVars, now, attempt>>

NextQueue ==
  \/ QueueProduce
  \/ QueueConsume

SpecQueue == InitDecoder /\ [][NextQueue]_vars

\* C27: a call of enqueueKeyEvent on a full queue changes nothing of the
\* queue: buffer, head, tail and the full flag, hence the queued events and
\* their order, are as before.
C27_FullQueueDrops ==
  [][ (lastOp' = "enqueueKeyEvent" /\ queueFull) =>
        /\ UNCHANGED queueVars
        /\ QueueSeq(QueueState') = QueueSeq(QueueState)
        /\ Len(QueueSeq(QueueState')) = INPUT_QUEUE_SIZE
    ]_vars

\* the 51st event met a queue holding the first 50, which it still holds
C27_Witness ==
  /\ lastOp = "enqueueKeyEvent" /\ queueFull
  /\ emitted = <<KeyEvent(INPUT_QUEUE_SIZE + 1, 0, TRUE)>>
  /\ Len(QueueSeq(QueueState)) = INPUT_QUEUE_SIZE
  /\ \A i \in 1..INPUT_QUEUE_SIZE : QueueSeq(QueueState)[i].keyCode = i

\* the key codes of a sequence of events increase strictly
Increasing(evs) ==
  \A i \in 1..Len(evs) : \A j \in 1..Len(evs) :
    i < j => evs[i].keyCode < evs[j].keyCode

\* C28: whatever the interleaving of enqueue calls and dequeues, an accepted
\* event joins the end of the queued events, a refused one changes nothing,
\* and a dequeue returns and removes the oldest queued event: the events come
\* out once each, in the order they were accepted.
C28_FifoExactlyOnce ==
  [][ /\ (lastOp' = "enqueueKeyEvent" /\ ~queueFull) =>
            QueueSeq(QueueState') = Append(QueueSeq(QueueState), emitted'[1])
      /\ (lastOp' = "enqueueKeyEvent" /\ queueFull) =>
            QueueSeq(QueueState') = QueueSeq(QueueState)
      /\ lastOp' = "dequeueKeyEvent" =>
            /\ QueueSeq(QueueState) # <<>>
            /\ emitted' = <<Head(QueueSeq(QueueState))>>
            /\ QueueSeq(QueueState') = Tail(QueueSeq(QueueState))
      /\ Increasing(QueueSeq(QueueState'))
    ]_vars

\* a dequeue from a queue that wrapped: event 52 was accepted after event 1
\* left the full queue, and event 2 has just been returned
C28_Witness ==
  /\ lastOp = "dequeueKeyEvent"
  /\ emitted = <<KeyEvent(2, 0, TRUE)>>
  /\ Len(QueueSeq(QueueState)) = INPUT_QUEUE_SIZE - 1
  /\ QueueSeq(QueueState)[INPUT_QUEUE_SIZE - 1].keyCode = INPUT_QUEUE_SIZE + 2
  /\ queueHead = 1

\* a step in which cancelPendingConnection runs: startDeviceScan (line 554),
\* or the first iteration of loop() on the Bluetooth screen (main.cpp 500)
CancelRuns == SessionStarts

\* C29: cancelPendingConnection clears the pending request; with no worker
\* running none is started by that step, and a worker is only ever started
\* for a request that is pending; a running worker keeps its handle, its
\* position and its attempt, and bleState stays as it was.
C29_CancelKeepsWorker ==
  [][ /\ CancelRuns => (~connectToKeyboard' /\ attempt'.reqKind = "none")
      /\ (CancelRuns /\ connectTaskHandle = "null") => connectTaskHandle' = "null"
      /\ WorkerCreated => connectToKeyboard
      /\ (CancelRuns /\ connectTaskHandle # "null") =>
            /\ UNCHANGED <<connectTaskHandle, wpc, secStart, bleState>>
            /\ attempt' = [attempt EXCEPT !.reqKind = "none"]
    ]_vars

\* a scan was started while the worker was waiting for the security
\* procedure: the worker is still there, still CONNECTING
C29_Witness ==
  /\ lastOp = "startDeviceScan"
  /\ connectTaskHandle # "null" /\ wpc = "authWait"
  /\ bleState = "CONNECTING"
  /\ ~connectToKeyboard /\ isScanning

-----------------------------------------------------------------------------
(* The worker specification: the connect worker with the callbacks of the
   stack and the main loop's policy, under the scheduling of FreeRTOS.  The
   worker task is ready whenever it is not blocked in a call of the stack,
   and each such call returns (the connect timeout, the GATT timeouts), so
   the worker's next step is taken eventually; millis() advances while the
   worker polls for the end of the security procedure. *)

WorkerTicks == 3

WorkerTick == PolicyTick(WorkerTicks)

\* the clock during the polling loop of lines 381-383
WaitTick ==
  /\ wpc = "authWait"
  /\ now - secStart < SECURITY_WAIT_MS
  /\ now' = now + TickUnit
  /\ lastOp' = "tick"
  /\ UNCHANGED <<bleVars, workerVars, radioVars, uiVars, queueVars, decoderVars,
                 historyVars, budgetVars, attempt>>

\* the next step of bleConnectTask
WorkerStep ==
  \/ WorkerStart
  \/ WorkerConnect
  \/ WorkerLinkFail
  \/ WorkerSecure
  \/ WorkerAuthWait
  \/ WorkerHid
  \/ WorkerHidFail
  \/ WorkerStore
  \/ WorkerConnected
  \/ WorkerExit

NextWorker ==
  \/ BleSetup
  \/ Loop
  \/ WorkerStart
  \/ WorkerConnect
  \/ WorkerLinkFail
  \/ WorkerSecure
  \/ WorkerAuthWait
  \/ WorkerHid
  \/ WorkerHidFail
  \/ WorkerStore
  \/ WorkerConnected
  \/ WorkerExit
  \/ OnConfirmPasskey
  \/ OnAuthenticationComplete
  \/ OnDisconnect
  \/ WorkerTick
  \/ WaitTick

SpecWorker ==
  InitBackoff /\ [][NextWorker]_vars /\ WF_vars(WorkerStep) /\ WF_vars(WaitTick)

\* C30: a started worker eventually ends, with connectTaskHandle null again;
\* whenever no worker exists bleState is not CONNECTING, and the step that
\* ends a worker leaves DISCONNECTED or CONNECTED behind.
C30_WorkerTerminates ==
  /\ (connectTaskHandle # "null") ~> (connectTaskHandle = "null" /\ wpc = "none")
  /\ [](connectTaskHandle = "null" => bleState # "CONNECTING")
  /\ [][ (connectTaskHandle # "null" /\ connectTaskHandle' = "null") =>
            /\ lastOp' = "WorkerExit"
            /\ bleState' \in {"DISCONNECTED", "CONNECTED"}
       ]_vars

\* a worker has ended after its security wait ran into the timeout: the
\* procedure is still pending, the clock is 5 s past the start of the attempt
C30_Witness ==
  /\ lastOp = "WorkerExit"
  /\ connectTaskHandle = "null" /\ wpc = "none"
  /\ secPending /\ ~authSuccess
  /\ now >= SECURITY_WAIT_MS
  /\ bleState = "CONNECTED"

-----------------------------------------------------------------------------
(* Claims on the tiers of the characteristic resolution *)

\* the indices of the characteristics of prof that satisfy a tier
InputRefs(prof) ==
  { i \in 1..Len(prof.chars) :
      prof.chars[i].uuid = "report" /\ prof.chars[i].refType = 1 }
NotifyReports(prof) ==
  { i \in 1..Len(prof.chars) :
      /\ prof.chars[i].uuid = "report" /\ prof.chars[i].canNotify
      /\ prof.chars[i].subOk }
Boots(prof) ==
  { i \in 1..Len(prof.chars) : prof.chars[i].uuid = "boot" }
AnyReport(prof) ==
  \E i \in 1..Len(prof.chars) : prof.chars[i].uuid = "report"

First(S) == CHOOSE i \in S : \A j \in S : i <= j

\* setupHidConnection has run on a peripheral with a HID service
Resolved == lastOp = "WorkerHid" /\ peer.services /\ peer.hid

\* C31 as stated: the Boot Keyboard Input characteristic is selected only
\* if the service has no report characteristic at all.
C31_BootOnlyWithoutReports ==
  (Resolved /\ pInputReportChar \in Boots(peer)) => ~AnyReport(peer)

\* C31: the first report characteristic with a Report Reference of type
\* Input is selected when there is one; otherwise every notifying report
\* characteristic that accepts the subscription is subscribed and the first
\* of them selected; the boot characteristic is selected only if the first
\* two tiers selected nothing; with nothing selected the resolution fails.
C31_TierPriority ==
  Resolved =>
    /\ InputRefs(peer) # {} => pInputReportChar = First(InputRefs(peer))
    /\ (InputRefs(peer) = {} /\ NotifyReports(peer) # {}) =>
          /\ NotifyReports(peer) \subseteq subscribed
          /\ pInputReportChar = First(NotifyReports(peer))
    /\ pInputReportChar \in Boots(peer) <=>
          /\ InputRefs(peer) = {} /\ NotifyReports(peer) = {}
          /\ Boots(peer) # {}
    /\ pInputReportChar \in Boots(peer) => pInputReportChar = First(Boots(peer))
    /\ (InputRefs(peer) = {} /\ NotifyReports(peer) = {} /\ Boots(peer) = {}) =>
          (pInputReportChar = 0 /\ wpc = "hidFail")
    /\ pInputReportChar = 0 => wpc = "hidFail"

\* the service has an output report, which cannot notify, and the boot
\* characteristic: the boot characteristic is selected and subscribed
C31_Witness ==
  /\ Resolved /\ linkUp
  /\ peer.chars = <<Chr("report", FALSE, 2, TRUE), Chr("boot", TRUE, 0, TRUE)>>
  /\ pInputReportChar = 2 /\ subscribed = {2}
  /\ wpc = "store"

-----------------------------------------------------------------------------
(* The order of the steps of a connect attempt *)

\* the calls setupHidConnection makes on the stack, in the order of the code
\* (lines 238-337), on a connected peripheral prof
RECURSIVE SubscribeCalls(_, _)
SubscribeCalls(chars, i) ==
  IF i > Len(chars) THEN <<>>
  ELSE IF chars[i].uuid = "report" /\ chars[i].canNotify            \* line 294
    THEN <<"subscribe">> \o SubscribeCalls(chars, i + 1)            \* line 296
  ELSE SubscribeCalls(chars, i + 1)

\* the calls with the protocol-mode write after the subscriptions
HidCallsProtoLast(prof) ==
  IF ~prof.services THEN <<"getServices">>
  ELSE IF ~prof.hid THEN <<"getServices", "getService">>
  ELSE
    LET t1 == FindInputRef(prof.chars, 1)
        r2 == SubscribeReports(prof.chars, 1, [input |-> 0, subs |-> {}, count |-> 0])
        t2 == IF t1 = 0 THEN r2.input ELSE t1
        t3 == IF t2 = 0 THEN FindBoot(prof.chars, 1) ELSE t2
    IN  <<"getServices", "getService", "getCharacteristics">>
        \o (IF t1 = 0 THEN SubscribeCalls(prof.chars, 1) ELSE <<>>)
        \o (IF t3 # 0 /\ (prof.chars[t3].uuid # "report" \/ ~prof.chars[t3].canNotify)
              THEN <<"subscribe">> ELSE <<>>)
        \o (IF prof.proto THEN <<"writeProtocolMode">> ELSE <<>>)
HidCalls(prof) ==
  IF ~prof.services THEN <<"getServices">>                           \* 238-242
  ELSE IF ~prof.hid THEN <<"getServices", "getService">>             \* 244-248
  ELSE
    LET t1 == FindInputRef(prof.chars, 1)
        r2 == SubscribeReports(prof.chars, 1, [input |-> 0, subs |-> {}, count |-> 0])
        t2 == IF t1 = 0 THEN r2.input ELSE t1
        t3 == IF t2 = 0 THEN FindBoot(prof.chars, 1) ELSE t2
    IN  <<"getServices", "getService">>
        \o (IF prof.proto THEN <<"writeProtocolMode">> ELSE <<>>)    \* 252-256
        \o <<"getCharacteristics">>                                  \* 263
        \o (IF t1 = 0 THEN SubscribeCalls(prof.chars, 1) ELSE <<>>)  \* 291-308
        \o (IF t3 # 0 /\ (prof.chars[t3].uuid # "report" \/ ~prof.chars[t3].canNotify)
              THEN <<"subscribe">> ELSE <<>>)                        \* 332-334

\* every call a comes before every call b in the sequence calls
Precedes(calls, a, b) ==
  \A i \in 1..Len(calls) : \A j \in 1..Len(calls) :
    (calls[i] = a /\ calls[j] = b) => i < j

\* the positions of bleConnectTask, in the order of the code
WorkerOrder ==
  { <<"none", "start">>, <<"start", "connect">>,
    <<"connect", "secure">>, <<"connect", "linkFail">>, <<"linkFail", "exit">>,
    <<"secure", "authWait">>, <<"secure", "hid">>, <<"authWait", "hid">>,
    <<"hid", "store">>, <<"hid", "hidFail">>, <<"hidFail", "exit">>,
    <<"store", "connected">>, <<"connected", "exit">>, <<"exit", "none">> }

NextOrder ==
  \/ BleSetup
  \/ Loop
  \/ WorkerStart
  \/ WorkerConnect
  \/ WorkerLinkFail
  \/ WorkerSecure
  \/ WorkerAuthWait
  \/ ResolveHid
  \/ WorkerHidFail
  \/ WorkerStore
  \/ WorkerConnected
  \/ WorkerExit
  \/ OnAuthenticationComplete
  \/ OnDisconnect

SpecOrder == InitBackoff /\ [][NextOrder]_vars

\* C32 as stated: in setupHidConnection the protocol-mode write never
\* precedes a subscription.
C32_ProtoAfterSubscribe ==
  Resolved => Precedes(HidCalls(peer), "subscribe", "writeProtocolMode")

\* C32: the worker goes through link establishment, security negotiation,
\* service discovery, protocol-mode write, characteristic discovery,
\* subscription, persistence of the PairingRecord and the write of
\* CONNECTED in this order; a peripheral without protocol-mode
\* characteristic does not fail the resolution.
C32_StepOrder ==
  /\ [][ /\ wpc' # wpc => <<wpc, wpc'>> \in WorkerOrder
         /\ (linkUp' /\ ~linkUp) => (wpc = "connect" /\ wpc' = "secure")
         /\ (secPending' /\ ~secPending) => (wpc = "secure" /\ wpc' = "authWait")
         /\ (protoWritten' /\ ~protoWritten) => (wpc = "hid" /\ peer'.proto)
         /\ (subscribed' # subscribed /\ subscribed' # {}) => wpc = "hid"
         /\ prefs' # prefs => (wpc = "store" /\ wpc' = "connected")
         /\ (bleState' = "CONNECTED" /\ bleState # "CONNECTED") =>
               (wpc = "connected" /\ wpc' = "exit")
      ]_vars
  /\ [](Resolved =>
          /\ Precedes(HidCalls(peer), "getService", "writeProtocolMode")
          /\ Precedes(HidCalls(peer), "writeProtocolMode", "getCharacteristics")
          /\ Precedes(HidCalls(peer), "getCharacteristics", "subscribe")
          /\ subscribed # {} => "subscribe" \in { HidCalls(peer)[i] : i \in 1..Len(HidCalls(peer)) }
          /\ protoWritten <=> "writeProtocolMode" \in { HidCalls(peer)[i] : i \in 1..Len(HidCalls(peer)) }
          /\ wpc = "store" <=>
                /\ pInputReportChar # 0
                /\ \/ peer.chars[pInputReportChar].subOk
                   \/ /\ peer.chars[pInputReportChar].uuid = "report"
                      /\ peer.chars[pInputReportChar].canNotify)

\* a resolution that wrote the protocol mode and then subscribed has
\* succeeded after a completed security procedure
C32_Witness ==
  /\ Resolved /\ wpc = "store" /\ linkUp /\ authSuccess
  /\ protoWritten /\ subscribed = {1}
  /\ HidCalls(peer) = <<"getServices", "getService", "writeProtocolMode",
                        "getCharacteristics", "subscribe">>

-----------------------------------------------------------------------------
(* Claims on what the worker shares with the main loop *)

\* the address kind of the peripheral with the given address
KindOf(address) ==
  (CHOOSE p \in Peripherals : p.address = address).addressType

\* C33: when the worker persists and the link of the attempt is up, the
\* PairingRecord names the peripheral of the link afterwards, and a record
\* that already names it is left as it is.
C33_RecordNamesLinkedPeer ==
  [][ (lastOp' = "WorkerStore" /\ linkUp) =>
        /\ prefs'.addr = linkPeer
        /\ prefs'.addrType = KindOf(linkPeer)
        /\ prefs.addr = linkPeer => prefs' = prefs
    ]_vars

\* the steps of the main loop task: setup(), loop() and the handlers that
\* processAllInput dispatches to
MainLoopOps ==
  { "bleSetup", "Loop", "processAllInput", "UiOpenBluetooth", "UiEscape",
    "startDeviceScan", "connectToDevice", "disconnectCurrentDevice",
    "clearAllBluetoothBonds" }

\* C34: reconnectDelay, lastReconnectAttempt and the discovery list are
\* written by steps of the main loop only.
C34_MainLoopOwnsBackoffAndList ==
  [][ (\/ reconnectDelay' # reconnectDelay
       \/ lastReconnectAttempt' # lastReconnectAttempt
       \/ discoveredDevices' # discoveredDevices) => lastOp' \in MainLoopOps
    ]_vars

\* C35: whenever bleState is CONNECTED the link is up and the input-report
\* handle is set.
C35_ConnectedMeansLinked ==
  bleState = "CONNECTED" => (linkUp /\ pInputReportChar # 0)

\* C36: whenever bleState is CONNECTING a worker exists and is between its
\* first line and its last write of bleState; the step that clears the
\* handle leaves DISCONNECTED or CONNECTED.
C36_ConnectingMeansWorker ==
  /\ [](bleState = "CONNECTING" =>
          /\ connectTaskHandle # "null"
          /\ wpc \notin {"none", "start", "exit"})
  /\ [][ connectTaskHandle' = "null" => bleState' # "CONNECTING" ]_vars

\* the failure path has written DISCONNECTED and the worker is about to
\* clear its handle, while the Bluetooth screen, which cancels, is open
C36_Witness ==
  /\ lastOp = "WorkerLinkFail" /\ wpc = "exit"
  /\ connectTaskHandle # "null"
  /\ bleState = "DISCONNECTED"
  /\ currentState = "BLUETOOTH_SETTINGS"

-----------------------------------------------------------------------------
(* Claims on the stream of key events *)

\* the keycodes the retained report r holds down
HeldKeys(r) == { r[i] : i \in 3..8 } \ {0}

\* C37: a delivery presses only keys that the stream does not hold down and
\* releases only keys that it holds down, and a link loss releases every
\* key that is held down: presses and releases of a keycode alternate.
C37_PressReleaseAlternate ==
  [][ /\ Delivered =>
            \A i \in 1..Len(NewEvents) :
              IF NewEvents[i].pressed
                THEN NewEvents[i].keyCode \notin HeldKeys(lastReport)
                ELSE NewEvents[i].keyCode \in HeldKeys(lastReport)
      /\ lastOp' \in {"onDisconnect", "disconnectCurrentDevice"} =>
            \A k \in HeldKeys(lastReport) :
              \E i \in 1..Len(NewEvents) :
                NewEvents[i].keyCode = k /\ ~NewEvents[i].pressed
    ]_vars

\* the number of events the queue holds
Stored == Len(QueueSeq(QueueState))

\* C38: head and tail stay in 0..INPUT_QUEUE_SIZE-1; the queue never holds
\* more than INPUT_QUEUE_SIZE events, which are distinct accepted events;
\* queueFull is set exactly when it holds INPUT_QUEUE_SIZE events, and then
\* head equals tail; an accepted enqueue adds one event, a dequeue takes one
\* away, and a dequeue on an empty queue changes nothing.
C38_QueueWellFormed ==
  /\ [](/\ queueHead \in 0..(INPUT_QUEUE_SIZE - 1)
        /\ queueTail \in 0..(INPUT_QUEUE_SIZE - 1)
        /\ Stored <= INPUT_QUEUE_SIZE
        /\ Cardinality({ QueueSeq(QueueState)[i].keyCode : i \in 1..Stored }) = Stored
        /\ queueFull <=> Stored = INPUT_QUEUE_SIZE
        /\ queueFull => queueHead = queueTail
        /\ queueHead = queueTail => Stored \in {0, INPUT_QUEUE_SIZE}
        /\ isQueueEmpty(QueueState) => Dequeue(QueueState) = QueueState)
  /\ [][ /\ lastOp' = "enqueueKeyEvent" =>
               Stored' = IF Stored < INPUT_QUEUE_SIZE THEN Stored + 1 ELSE Stored
         /\ lastOp' = "dequeueKeyEvent" => (Stored > 0 /\ Stored' = Stored - 1)
       ]_vars

\* the queue is full after it wrapped: three events left, three came
C38_Witness ==
  /\ queueFull /\ queueHead = 3 /\ queueTail = 3
  /\ Stored = INPUT_QUEUE_SIZE
  /\ notifyCount = INPUT_QUEUE_SIZE + 3
  /\ lastOp = "enqueueKeyEvent"

-----------------------------------------------------------------------------
(* Claims on clearing the stored device and on scanning *)

\* C39: while no PairingRecord exists after setup, a worker is started only
\* for a request of the user, and a record is written only by the worker
\* that serves a request of the user.
C39_NothingAfterClear ==
  [][ (prefs = NoRecord /\ mainPc = "loop") =>
        /\ WorkerCreated => attempt'.kind = "user"
        /\ prefs' # NoRecord => (lastOp' = "WorkerStore" /\ attempt.kind = "user")
    ]_vars

\* C40: isScanning is never set while a worker exists.
C40_NoScanWhileWorker ==
  ~(isScanning /\ connectTaskHandle # "null")

====
